---- MODULE Spec2Model ----
(***************************************************************************)
(* POSIX interval timers: the timer-specification parser                   *)
(* (itimerspec_from_str.c) and the multi-timer signal program              *)
(* (ptmr_sigev_signal.c) running on the kernel timer interface that the    *)
(* repository's README documents.                                          *)
(***************************************************************************)
EXTENDS Integers, Sequences, FiniteSets, TLC

VARIABLES
    argv,        \* the text buffers argv[1..argc-1]
    ts,          \* main: struct itimerspec ts
    pc,          \* main: the statement it is at
    j,           \* main: the loop index j
    tidlist,     \* main: the array of timer IDs
    sev,         \* main: struct sigevent sev (its sigev_value)
    ret,         \* main: the result of the last timer call
    timers,      \* kernel: the timers of the process, by ID
    sigq,        \* kernel: the queue of pending TIMER_SIG notifications
    sigpending,  \* kernel: queued-signal structures allocated to the user
    hpc,         \* handler: the statement it is at, "idle" when not running
    si,          \* handler: the siginfo_t it was invoked with
    tidptr,      \* handler: timer_t *tidptr
    overrun,     \* handler: the value timer_getoverrun returned
    parsed,      \* history: the results of the parser calls, in order
    origArgv,    \* history: the texts as they were at program start
    expired,     \* history: per timer, expirations since its last delivery
    coalesced,   \* history: expirations the notification in handler stands for
    lateExpired, \* history: expirations between the delivery and the read
    left,        \* kernel: per timer, seconds until its next expiration
    waitLeft,    \* kernel: seconds until the sigtimedwait in progress times out
    old,         \* caller: the struct itimerspec a timer call has filled in
    call,        \* history: the timer call made last
    deleted,     \* history: the IDs timer_delete has deleted
    atWait       \* history: what held when the wait in progress began

parseVars == <<argv, ts, parsed, origArgv>>

mainVars == <<pc, j, tidlist, sev, ret>>

kernelVars == <<timers, sigq, sigpending>>

handlerVars == <<hpc, si, tidptr, overrun>>

historyVars == <<expired, coalesced, lateExpired>>

apiVars == <<left, waitLeft, old, call, deleted, atWait>>

vars == <<argv, ts, pc, j, tidlist, sev, ret, timers, sigq, sigpending,
          hpc, si, tidptr, overrun, parsed, origArgv, expired, coalesced,
          lateExpired, left, waitLeft, old, call, deleted, atWait>>

(***************************************************************************)
(* Bounds                                                                  *)
(***************************************************************************)
\* number of times the same text buffer is handed to the parser
MaxParseCalls == 2

\* number of timer specifications on the command line (argc - 1)
MaxArgs == 2

\* expirations of one timer that are counted while its notification waits
MaxOverrun == 1

\* RLIMIT_SIGPENDING of the user
SigPendingLimit == 2

(***************************************************************************)
(* C strings: a buffer is a sequence of characters that ends with NUL.     *)
(***************************************************************************)
NUL == "NUL"

Digits == {"0", "1", "2", "3", "4", "5", "6", "7", "8", "9"}

DigitVal(c) ==
    CASE c = "0" -> 0 [] c = "1" -> 1 [] c = "2" -> 2 [] c = "3" -> 3
      [] c = "4" -> 4 [] c = "5" -> 5 [] c = "6" -> 6 [] c = "7" -> 7
      [] c = "8" -> 8 [] c = "9" -> 9

\* isspace() of the C locale, for the characters of the model's alphabet
IsSpace(c) == c = " "

Min(S) == CHOOSE m \in S : \A n \in S : m <= n

\* index of the NUL that ends the C string starting at index from
CStrEnd(b, from) == Min({i \in from..Len(b) : b[i] = NUL})

\* strchr(b + from, c): index of the first c before the terminating NUL,
\* 0 for the null pointer
strchr(b, from, c) ==
    LET hits == {i \in from..(CStrEnd(b, from) - 1) : b[i] = c}
    IN  IF hits = {} THEN 0 ELSE Min(hits)

\* *p = '\0'
PutNul(b, p) == [b EXCEPT ![p] = NUL]

(***************************************************************************)
(* int arithmetic.  The model checker's integers are 32 bits wide, so the  *)
(* unbounded value of a digit string is kept as two 16-bit halves of its   *)
(* low 32 bits together with a flag that it left the range of int.         *)
(***************************************************************************)
INT_MAX == 2147483647
INT_MIN == (-2147483647) - 1
Half == 65536

\* acc * 10 + d on [hi, lo, over]; over: the magnitude exceeded 2^32 - 1
MulAdd(acc, d) ==
    LET lo2 == acc.lo * 10 + d
        hi2 == acc.hi * 10 + (lo2 \div Half)
    IN  [lo   |-> lo2 % Half,
         hi   |-> hi2 % Half,
         over |-> acc.over \/ hi2 >= Half]

RECURSIVE DigitsAcc(_, _, _, _)
DigitsAcc(b, i, e, acc) ==
    IF i > e THEN acc
    ELSE DigitsAcc(b, i + 1, e, MulAdd(acc, DigitVal(b[i])))

\* two's complement reading of the low 32 bits
ToInt32(acc) ==
    IF acc.hi >= Half \div 2
    THEN ((acc.hi - Half) * Half) + acc.lo
    ELSE (acc.hi * Half) + acc.lo

\* the digit string scanned by atoi at index from: [neg, first, last]
AtoiScan(b, from) ==
    LET ws    == Min({i \in from..Len(b) : ~IsSpace(b[i])})
        neg   == b[ws] = "-"
        first == IF b[ws] \in {"-", "+"} THEN ws + 1 ELSE ws
        last  == Min({i \in first..Len(b) : b[i] \notin Digits}) - 1
    IN  [neg |-> neg, first |-> first, last |-> last]

\* the magnitude of the digit string atoi scans
AtoiMagnitude(b, from) ==
    LET s == AtoiScan(b, from)
    IN  DigitsAcc(b, s.first, s.last, [lo |-> 0, hi |-> 0, over |-> FALSE])

\* TRUE when the number atoi scans is representable as an int
AtoiFits(b, from) ==
    LET s == AtoiScan(b, from)
        m == AtoiMagnitude(b, from)
    IN  /\ ~m.over
        /\ \/ m.hi < Half \div 2
           \/ s.neg /\ m.hi = Half \div 2 /\ m.lo = 0

\* atoi that rejects a number followed by other characters
atoi_strict(b, from) ==
    LET s == AtoiScan(b, from)
        m == AtoiMagnitude(b, from)
        w == ToInt32(m)
    IN  IF b[s.last + 1] # NUL \/ s.last < s.first THEN {0}
        ELSE {IF s.neg THEN IF w = INT_MIN THEN INT_MIN ELSE -w ELSE w}

\* atoi(b + from).  The C standard leaves the result undefined when the
\* value is not representable: the builds produce either the low 32 bits
\* (strtol to a 64-bit long, converted to int) or the saturated value
\* (strtol where long is 32 bits wide).
atoi(b, from) ==
    LET s == AtoiScan(b, from)
        m == AtoiMagnitude(b, from)
        w == ToInt32(m)
    IN  IF AtoiFits(b, from)
        THEN {IF s.neg THEN IF w = INT_MIN THEN INT_MIN ELSE -w ELSE w}
        ELSE {IF s.neg THEN IF w = INT_MIN THEN INT_MIN ELSE -w ELSE w,
              IF s.neg THEN INT_MIN ELSE INT_MAX}

(***************************************************************************)
(* struct itimerspec                                                       *)
(***************************************************************************)
Timespec(s, n) == [tv_sec |-> s, tv_nsec |-> n]

Itimerspec(v, i) == [it_value |-> v, it_interval |-> i]

\* itimerspecFromStr without the defaults of the absent components
itimerspecFromStr_noDefault(str, tsp) ==
    LET cptr == strchr(str, 1, ":")
        s1   == IF cptr # 0 THEN PutNul(str, cptr) ELSE str
        sptr == strchr(s1, 1, "/")
        s2   == IF sptr # 0 THEN PutNul(s1, sptr) ELSE s1
        vsec == atoi(s2, 1)
        vnsec == IF sptr # 0 THEN atoi(s2, sptr + 1)
                 ELSE {tsp.it_value.tv_nsec}
        sptr2 == IF cptr # 0 THEN strchr(s2, cptr + 1, "/") ELSE 0
        s3   == IF sptr2 # 0 THEN PutNul(s2, sptr2) ELSE s2
        isec == IF cptr = 0 THEN {tsp.it_interval.tv_sec}
                ELSE atoi(s3, cptr + 1)
        insec == IF cptr # 0 /\ sptr2 # 0 THEN atoi(s3, sptr2 + 1)
                 ELSE {tsp.it_interval.tv_nsec}
    IN  {[str |-> s3,
          tsp |-> [tsp EXCEPT !.it_value = Timespec(a, b),
                              !.it_interval = Timespec(c, d)]] :
            a \in vsec, b \in vnsec, c \in isec, d \in insec}

\* itimerspecFromStr that looks for the first '/' of the whole text
itimerspecFromStr_slashFirst(str, tsp) ==
    LET cptr == strchr(str, 1, ":")
        sptr == strchr(str, 1, "/")
        s1   == IF cptr # 0 THEN PutNul(str, cptr) ELSE str
        s2   == IF sptr # 0 THEN PutNul(s1, sptr) ELSE s1
        vsec == atoi(s2, 1)
        vnsec == IF sptr # 0 THEN atoi(s2, sptr + 1) ELSE {0}
        sptr2 == IF cptr # 0 THEN strchr(s2, cptr + 1, "/") ELSE 0
        s3   == IF sptr2 # 0 THEN PutNul(s2, sptr2) ELSE s2
        isec == IF cptr = 0 THEN {0} ELSE atoi(s3, cptr + 1)
        insec == IF cptr = 0 THEN {0}
                 ELSE IF sptr2 # 0 THEN atoi(s3, sptr2 + 1) ELSE {0}
    IN  {[str |-> s3,
          tsp |-> [tsp EXCEPT !.it_value = Timespec(a, b),
                              !.it_interval = Timespec(c, d)]] :
            a \in vsec, b \in vnsec, c \in isec, d \in insec}

\* itimerspecFromStr(str, tsp): the possible outcomes [str, tsp] of one call
\* on the buffer str and the structure tsp (several only where atoi is
\* undefined).
itimerspecFromStr(str, tsp) ==
    LET cptr == strchr(str, 1, ":")
        s1   == IF cptr # 0 THEN PutNul(str, cptr) ELSE str
        sptr == strchr(s1, 1, "/")
        s2   == IF sptr # 0 THEN PutNul(s1, sptr) ELSE s1
        vsec == atoi(s2, 1)
        vnsec == IF sptr # 0 THEN atoi(s2, sptr + 1) ELSE {0}
        sptr2 == IF cptr # 0 THEN strchr(s2, cptr + 1, "/") ELSE 0
        s3   == IF sptr2 # 0 THEN PutNul(s2, sptr2) ELSE s2
        isec == IF cptr = 0 THEN {0} ELSE atoi(s3, cptr + 1)
        insec == IF cptr = 0 THEN {0}
                 ELSE IF sptr2 # 0 THEN atoi(s3, sptr2 + 1) ELSE {0}
    IN  {[str |-> s3,
          tsp |-> [tsp EXCEPT !.it_value = Timespec(a, b),
                              !.it_interval = Timespec(c, d)]] :
            a \in vsec, b \in vnsec, c \in isec, d \in insec}

(***************************************************************************)
(* Numeric tokens of the texts the parser is given                         *)
(***************************************************************************)
Tok0    == << >>
TokZero == <<"0">>
Tok5    == <<"5">>
Tok12   == <<"1", "2">>
TokNeg3 == <<"-", "3">>
TokX    == <<"x">>
Tok5x   == <<"5", "x">>
TokSp4  == <<" ", "4">>
TokE9   == <<"1", "0", "0", "0", "0", "0", "0", "0", "0", "0">>
Tok2p31 == <<"2", "1", "4", "7", "4", "8", "3", "6", "4", "8">>

Tokens == {Tok0, TokZero, Tok5, Tok12, TokNeg3, TokX, Tok5x, TokSp4,
           TokE9, Tok2p31}

\* what an unassigned struct itimerspec may hold; no text of ParseTexts
\* denotes Unassigned
Unassigned == 7

GarbageVals == {0, Unassigned}

GarbageTs == {Itimerspec(Timespec(g, g), Timespec(g, g)) : g \in GarbageVals}

(***************************************************************************)
(* The kernel's timer interface, as the README describes it.               *)
(***************************************************************************)
TimerIds == 0..(MaxArgs - 1)

NoTimer ==
    [live |-> FALSE, armed |-> FALSE,
     it_value |-> Timespec(0, 0), it_interval |-> Timespec(0, 0),
     sigev_value |-> 0, it_overrun |-> 0, it_overrun_last |-> 0]

NoSiginfo == [si_value |-> 0, si_overrun |-> 0]

\* no timer call made at this instant; no sigtimedwait in progress
NoCall ==
    [op |-> "none", th |-> 0, h |-> -1, ret |-> 0, free |-> 0,
     round |-> FALSE, again |-> FALSE, stale |-> FALSE, same |-> TRUE,
     live |-> FALSE, armed |-> FALSE, queued |-> FALSE, remaining |-> 0,
     installed |-> [it_value |-> [tv_sec |-> 0, tv_nsec |-> 0],
                    it_interval |-> [tv_sec |-> 0, tv_nsec |-> 0]],
     info |-> NoSiginfo]

NoWait == [short |-> FALSE, pending |-> FALSE, timers |-> << >>]

LiveTimers(tms) == {t \in TimerIds : tms[t].live}

\* timer_create that sets the timer up before it looks for a free
\* queued-signal structure
timer_create_partial(tms, sp, value) ==
    LET id == Min(TimerIds \ LiveTimers(tms))
        created == [tms EXCEPT ![id] = [NoTimer EXCEPT !.live = TRUE,
                                                       !.sigev_value = value]]
    IN  IF sp >= SigPendingLimit
        THEN [ret |-> -1, id |-> id, timers |-> created, sigpending |-> sp]
        ELSE [ret |-> 0, id |-> id, timers |-> created, sigpending |-> sp + 1]

\* timer_create that does not record sigev_value
timer_create_noValue(tms, sp, value) ==
    IF sp >= SigPendingLimit
    THEN [ret |-> -1, id |-> 0, timers |-> tms, sigpending |-> sp]
    ELSE LET id == Min(TimerIds \ LiveTimers(tms))
         IN  [ret |-> 0, id |-> id,
              timers |-> [tms EXCEPT ![id] = [NoTimer EXCEPT !.live = TRUE]],
              sigpending |-> sp + 1]

\* timer_create that starts the timer it creates
timer_create_armed(tms, sp, value) ==
    IF sp >= SigPendingLimit
    THEN [ret |-> -1, id |-> 0, timers |-> tms, sigpending |-> sp]
    ELSE LET id == Min(TimerIds \ LiveTimers(tms))
         IN  [ret |-> 0, id |-> id,
              timers |-> [tms EXCEPT ![id] = [NoTimer EXCEPT
                                                !.live = TRUE,
                                                !.armed = TRUE,
                                                !.sigev_value = value]],
              sigpending |-> sp + 1]

\* timer_create that gives every timer the ID 0
timer_create_sameId(tms, sp, value) ==
    IF sp >= SigPendingLimit
    THEN [ret |-> -1, id |-> 0, timers |-> tms, sigpending |-> sp]
    ELSE [ret |-> 0, id |-> 0,
          timers |-> [tms EXCEPT ![0] = [NoTimer EXCEPT
                                           !.live = TRUE,
                                           !.sigev_value = value]],
          sigpending |-> sp + 1]

\* timer_create(CLOCK_REALTIME, &sev, &tid): one queued-signal structure is
\* preallocated for the timer; when the user's limit is reached the call
\* fails and no timer exists.
timer_create(tms, sp, value) ==
    IF sp >= SigPendingLimit
    THEN [ret |-> -1, id |-> 0, timers |-> tms, sigpending |-> sp]
    ELSE LET id == Min(TimerIds \ LiveTimers(tms))
         IN  [ret |-> 0, id |-> id,
              timers |-> [tms EXCEPT ![id] = [NoTimer EXCEPT
                                                !.live = TRUE,
                                                !.sigev_value = value]],
              sigpending |-> sp + 1]

NSEC_PER_SEC == 1000000000

\* the kernel accepts a struct timespec with 0 <= tv_nsec < 1000000000 and
\* a non-negative tv_sec
ValidTimespec(t) ==
    t.tv_sec >= 0 /\ t.tv_nsec >= 0 /\ t.tv_nsec < NSEC_PER_SEC

\* timer_settime that installs no interval
timer_settime_noInterval(tms, tid, new) ==
    IF tid \notin LiveTimers(tms)
       \/ ~ValidTimespec(new.it_value) \/ ~ValidTimespec(new.it_interval)
    THEN [ret |-> -1, timers |-> tms]
    ELSE [ret |-> 0,
          timers |-> [tms EXCEPT ![tid].armed = new.it_value # Timespec(0, 0),
                                 ![tid].it_value = new.it_value,
                                 ![tid].it_interval = Timespec(0, 0)]]

\* timer_settime(tid, 0, &new, NULL): a non-zero it_value starts the timer,
\* a zero it_value leaves it disarmed
timer_settime(tms, tid, new) ==
    IF tid \notin LiveTimers(tms)
       \/ ~ValidTimespec(new.it_value) \/ ~ValidTimespec(new.it_interval)
    THEN [ret |-> -1, timers |-> tms]
    ELSE [ret |-> 0,
          timers |-> [tms EXCEPT ![tid].armed = new.it_value # Timespec(0, 0),
                                 ![tid].it_value = new.it_value,
                                 ![tid].it_interval = new.it_interval]]

\* timer_getoverrun that reports the running count of the timer
timer_getoverrun_running(tms, tid) ==
    IF tid \in LiveTimers(tms) THEN tms[tid].it_overrun ELSE -1

\* timer_getoverrun(tid): the overrun count of the notification that was
\* delivered last
timer_getoverrun(tms, tid) ==
    IF tid \in LiveTimers(tms) THEN tms[tid].it_overrun_last ELSE -1

Queued(q, t) == \E i \in 1..Len(q) : q[i] = t

\* queueing that appends a notification at every expiration
send_sigqueue_always(tms, q, t) ==
    [timers |-> tms, sigq |-> Append(q, t)]

\* queueing that forgets the expirations that find the notification queued
send_sigqueue_uncounted(tms, q, t) ==
    IF Queued(q, t)
    THEN [timers |-> tms, sigq |-> q]
    ELSE [timers |-> tms, sigq |-> Append(q, t)]

\* queueing through one structure that all timers of the signal share
send_sigqueue_shared(tms, q, t) ==
    IF q # << >>
    THEN [timers |-> [tms EXCEPT ![t].it_overrun = @ + 1], sigq |-> q]
    ELSE [timers |-> tms, sigq |-> Append(q, t)]

\* queueing that queues a second notification of a timer whose notification
\* is still queued
send_sigqueue_twice(tms, q, t) ==
    IF Queued(q, t)
    THEN [timers |-> [tms EXCEPT ![t].it_overrun = @ + 1],
          sigq |-> Append(q, t)]
    ELSE [timers |-> tms, sigq |-> Append(q, t)]

\* an expiration queues the timer's one preallocated notification, or, if
\* that is still queued, counts an overrun
send_sigqueue(tms, q, t) ==
    IF Queued(q, t)
    THEN [timers |-> [tms EXCEPT ![t].it_overrun = @ + 1], sigq |-> q]
    ELSE [timers |-> tms, sigq |-> Append(q, t)]

\* reloading that leaves every timer disarmed
Reload_never(tm) == [tm EXCEPT !.armed = FALSE]

\* reloading that restarts every timer
Reload_always(tm) == tm

\* after an expiration a timer with a non-zero interval is reloaded, a
\* timer with a zero interval stays disarmed
Reload(tm) ==
    IF tm.it_interval # Timespec(0, 0) THEN tm
    ELSE [tm EXCEPT !.armed = FALSE]

\* the clock reaches an expiration of the armed timer t
Expire(t) ==
    /\ timers[t].live /\ timers[t].armed
    /\ timers[t].it_overrun < MaxOverrun
    /\ LET r == send_sigqueue(timers, sigq, t)
       IN  /\ timers' = [r.timers EXCEPT ![t] = Reload(@)]
           /\ sigq' = r.sigq
    /\ expired' = [expired EXCEPT ![t] = @ + 1]
    /\ UNCHANGED <<apiVars, parseVars, mainVars, sigpending, handlerVars, coalesced,
                   lateExpired>>

(***************************************************************************)
(* The multi-timer program: handler                                        *)
(***************************************************************************)
\* the signal is delivered: the first queued notification leaves the queue
\* with the current overrun count, the count starts again at 0, and
\* handler is entered with TIMER_SIG blocked; lines 16-20: tidptr and the
\* two printf calls
Deliver ==
    /\ pc \notin {"none", "exited"}
    /\ hpc = "idle"
    /\ sigq # << >>
    /\ LET t == Head(sigq)
       IN  /\ si' = [si_value |-> timers[t].sigev_value,
                     si_overrun |-> timers[t].it_overrun]
           /\ timers' = [timers EXCEPT ![t].it_overrun_last = timers[t].it_overrun,
                                       ![t].it_overrun = 0]
           /\ tidptr' = timers[t].sigev_value
           /\ coalesced' = expired[t]
           /\ expired' = [expired EXCEPT ![t] = 0]
    /\ sigq' = Tail(sigq)
    /\ hpc' = "getoverrun"
    /\ UNCHANGED <<apiVars, parseVars, mainVars, sigpending, overrun, lateExpired>>

\* line 21: printf("Overrun: %d\n", timer_getoverrun(*tidptr))
HandlerGetOverrun ==
    /\ hpc = "getoverrun"
    /\ overrun' = timer_getoverrun(timers, tidlist[tidptr])
    /\ hpc' = "return"
    /\ lateExpired' = expired[tidlist[tidptr]]
    /\ UNCHANGED <<apiVars, parseVars, mainVars, kernelVars, si, tidptr, expired,
                   coalesced>>

\* line 22: handler returns and TIMER_SIG is unblocked
HandlerReturn ==
    /\ hpc = "return"
    /\ hpc' = "idle"
    /\ si' = NoSiginfo
    /\ tidptr' = 0
    /\ overrun' = 0
    /\ coalesced' = 0
    /\ lateExpired' = 0
    /\ UNCHANGED <<apiVars, parseVars, mainVars, kernelVars, expired>>

(***************************************************************************)
(* The multi-timer program: main.  main runs only while handler does not.  *)
(***************************************************************************)
NArgs == Len(argv)

\* exit(EXIT_FAILURE): the kernel deletes the timers of the process and
\* releases their queued-signal structures
Exit ==
    /\ pc' = "exited"
    /\ timers' = [t \in TimerIds |-> NoTimer]
    /\ sigq' = << >>
    /\ sigpending' = sigpending - Cardinality(LiveTimers(timers))
    /\ expired' = [t \in TimerIds |-> 0]

\* lines 32-51: usage check, calloc, sigaction, sev
Start ==
    /\ pc = "start"
    /\ IF NArgs < 1
       THEN /\ Exit
            /\ UNCHANGED tidlist
       ELSE /\ pc' = "parse"
            /\ tidlist' = [i \in 0..(NArgs - 1) |-> 0]
            /\ UNCHANGED <<kernelVars, expired>>
    /\ UNCHANGED <<apiVars, parseVars, j, sev, ret, handlerVars, coalesced,
                   lateExpired>>

\* lines 55-61: itimerspecFromStr(argv[j + 1], &ts), printf,
\* sev.sigev_value.sival_ptr = &tidlist[j]
Parse ==
    /\ pc = "parse" /\ hpc = "idle"
    /\ \E r \in itimerspecFromStr(argv[j + 1], ts) :
          /\ argv' = [argv EXCEPT ![j + 1] = r.str]
          /\ ts' = r.tsp
          /\ parsed' = Append(parsed, r.tsp)
    /\ sev' = j
    /\ pc' = "create"
    /\ UNCHANGED <<apiVars, origArgv, j, tidlist, ret, kernelVars, handlerVars,
                   historyVars>>

\* a timer_create call that leaves tidlist[j] as calloc made it
Create_unwritten ==
    /\ pc = "create" /\ hpc = "idle"
    /\ LET r == timer_create(timers, sigpending, sev)
       IN  /\ ret' = r.ret
           /\ timers' = r.timers
           /\ sigpending' = r.sigpending
    /\ pc' = "create_chk"
    /\ UNCHANGED <<apiVars, parseVars, j, tidlist, sev, sigq, handlerVars,
                   historyVars>>

\* line 64: timer_create(CLOCK_REALTIME, &sev, &tidlist[j])
Create ==
    /\ pc = "create" /\ hpc = "idle"
    /\ LET r == timer_create(timers, sigpending, sev)
       IN  /\ ret' = r.ret
           /\ timers' = r.timers
           /\ sigpending' = r.sigpending
           /\ tidlist' = IF r.ret = 0 THEN [tidlist EXCEPT ![j] = r.id]
                         ELSE tidlist
    /\ pc' = "create_chk"
    /\ UNCHANGED <<apiVars, parseVars, j, sev, sigq, handlerVars, historyVars>>

\* lines 64-67: if (... == -1) errExit("timer_create"); printf
CreateChk ==
    /\ pc = "create_chk" /\ hpc = "idle"
    /\ IF ret = -1
       THEN Exit
       ELSE /\ pc' = "settime"
            /\ UNCHANGED <<kernelVars, expired>>
    /\ UNCHANGED <<apiVars, parseVars, j, tidlist, sev, ret, handlerVars, coalesced,
                   lateExpired>>

\* line 70: timer_settime(tidlist[j], 0, &ts, NULL)
Settime ==
    /\ pc = "settime" /\ hpc = "idle"
    /\ LET r == timer_settime(timers, tidlist[j], ts)
       IN  /\ ret' = r.ret
           /\ timers' = r.timers
    /\ pc' = "settime_chk"
    /\ UNCHANGED <<apiVars, parseVars, j, tidlist, sev, sigq, sigpending, handlerVars,
                   historyVars>>

\* the end of the loop body without the test of the result
SettimeChk_unchecked ==
    /\ pc = "settime_chk" /\ hpc = "idle"
    /\ j' = j + 1
    /\ pc' = IF j + 1 < NArgs THEN "parse" ELSE "pause"
    /\ UNCHANGED <<kernelVars, expired>>
    /\ UNCHANGED <<apiVars, parseVars, tidlist, sev, ret, handlerVars, coalesced,
                   lateExpired>>

\* lines 70-76: if (... == -1) errExit("timer_settime"); j++; the loop
\* test; for (;;) pause()
SettimeChk ==
    /\ pc = "settime_chk" /\ hpc = "idle"
    /\ IF ret = -1
       THEN /\ Exit
            /\ UNCHANGED j
       ELSE /\ j' = j + 1
            /\ pc' = IF j + 1 < NArgs THEN "parse" ELSE "pause"
            /\ UNCHANGED <<kernelVars, expired>>
    /\ UNCHANGED <<apiVars, parseVars, tidlist, sev, ret, handlerVars, coalesced,
                   lateExpired>>

Tok1 == <<"1">>

\* the timer specifications of the command line: "1" (one-shot), "1:1"
\* (periodic), "0" (never armed), "1/1000000000" (rejected by timer_settime)
ArgTexts ==
    {Tok1 \o <<NUL>>,
     Tok1 \o <<":">> \o Tok1 \o <<NUL>>,
     TokZero \o <<NUL>>,
     Tok1 \o <<"/">> \o TokE9 \o <<NUL>>}

ArgLists == UNION {[1..n -> ArgTexts] : n \in 0..MaxArgs}

\* no timer exists, no signal is pending, handler does not run
NoKernel ==
    /\ timers = [t \in TimerIds |-> NoTimer]
    /\ sigq = << >>
    /\ hpc = "idle"
    /\ si = NoSiginfo
    /\ tidptr = 0
    /\ overrun = 0
    /\ expired = [t \in TimerIds |-> 0]
    /\ coalesced = 0
    /\ lateExpired = 0
    /\ left = [t \in TimerIds |-> 0]
    /\ waitLeft = 0
    /\ old = Itimerspec(Timespec(0, 0), Timespec(0, 0))
    /\ call = NoCall
    /\ deleted = {}
    /\ atWait = NoWait

NoProgram ==
    /\ j = 0
    /\ tidlist = << >>
    /\ sev = 0
    /\ ret = 0
    /\ NoKernel

Init ==
    /\ argv \in ArgLists
    /\ origArgv = argv
    /\ ts \in GarbageTs
    /\ parsed = << >>
    /\ pc = "start"
    /\ sigpending \in 0..SigPendingLimit
    /\ NoProgram

Next ==
    \/ Start
    \/ Parse
    \/ Create
    \/ CreateChk
    \/ Settime
    \/ SettimeChk
    \/ \E t \in TimerIds : Expire(t)
    \/ Deliver
    \/ HandlerGetOverrun
    \/ HandlerReturn

Spec == Init /\ [][Next]_vars

\* the clock reaches the expiration of an armed timer with a zero interval,
\* a pending unblocked signal is delivered, and handler runs to its end
FairSpec ==
    /\ Spec
    /\ WF_vars(\E t \in TimerIds :
                  timers[t].it_interval = Timespec(0, 0) /\ Expire(t))
    /\ WF_vars(Deliver)
    /\ WF_vars(HandlerGetOverrun \/ HandlerReturn)

(***************************************************************************)
(* The single-timer programs: one periodic timer whose notification        *)
(* carries an integer, no check of the results of the timer calls.         *)
(***************************************************************************)
\* sevp.sigev_value.sival_int of the two programs
sival_int_first == 12512
sival_int_second == 1234

\* ts as the programs set it: 5.005 s then every 2 s; 5 s then every 2 s
SingleTs(value) ==
    IF value = sival_int_first
    THEN Itimerspec(Timespec(5, 5000000), Timespec(2, 0))
    ELSE Itimerspec(Timespec(5, 0), Timespec(2, 0))

\* sigaction, sevp, timer_create(CLOCK_REALTIME, &sevp, &timerid); the
\* result is not looked at, and timerid keeps its value when the call fails
SingleCreate ==
    /\ pc = "s_create" /\ hpc = "idle"
    /\ LET r == timer_create(timers, sigpending, sev)
       IN  /\ ret' = r.ret
           /\ timers' = r.timers
           /\ sigpending' = r.sigpending
           /\ tidlist' = IF r.ret = 0 THEN [tidlist EXCEPT ![0] = r.id]
                         ELSE tidlist
    /\ pc' = "s_settime"
    /\ UNCHANGED <<apiVars, parseVars, j, sev, sigq, handlerVars, historyVars>>

\* ts = ...; timer_settime(timerid, 0, &ts, NULL); while (1) pause()
SingleSettime ==
    /\ pc = "s_settime" /\ hpc = "idle"
    /\ ts' = SingleTs(sev)
    /\ LET r == timer_settime(timers, tidlist[0], SingleTs(sev))
       IN  /\ ret' = r.ret
           /\ timers' = r.timers
    /\ pc' = "s_pause"
    /\ UNCHANGED <<apiVars, argv, parsed, origArgv, j, tidlist, sev, sigq,
                   sigpending, handlerVars, historyVars>>

\* the signal is delivered and timer_handler is entered with the signal
\* blocked; its first printf: sig
timer_handler ==
    /\ pc \in {"s_create", "s_settime", "s_pause"}
    /\ hpc = "idle"
    /\ sigq # << >>
    /\ LET t == Head(sigq)
       IN  /\ si' = [si_value |-> timers[t].sigev_value,
                     si_overrun |-> timers[t].it_overrun]
           /\ timers' = [timers EXCEPT ![t].it_overrun_last = timers[t].it_overrun,
                                       ![t].it_overrun = 0]
           /\ coalesced' = expired[t]
           /\ expired' = [expired EXCEPT ![t] = 0]
    /\ sigq' = Tail(sigq)
    /\ hpc' = "value"
    /\ UNCHANGED <<apiVars, parseVars, mainVars, sigpending, tidptr, overrun,
                   lateExpired>>

\* the second printf of timer_handler: si->si_value.sival_int
HandlerPrintValue ==
    /\ hpc = "value"
    /\ hpc' = "return"
    /\ UNCHANGED <<apiVars, parseVars, mainVars, kernelVars, si, tidptr,
                   overrun, historyVars>>

\* timerid is not initialised
SingleInit ==
    /\ argv = << >>
    /\ origArgv = << >>
    /\ ts \in GarbageTs
    /\ parsed = << >>
    /\ pc = "s_create"
    /\ j = 0
    /\ tidlist \in {[i \in {0} |-> g] : g \in GarbageVals}
    /\ sev \in {sival_int_first, sival_int_second}
    /\ ret = 0
    /\ sigpending \in 0..SigPendingLimit
    /\ NoKernel

SingleNext ==
    \/ SingleCreate
    \/ SingleSettime
    \/ \E t \in TimerIds : Expire(t)
    \/ timer_handler
    \/ HandlerPrintValue
    \/ HandlerReturn

SingleSpec == SingleInit /\ [][SingleNext]_vars

\* the clock reaches the next expiration of an armed timer, a pending
\* unblocked signal is delivered, and timer_handler returns
FairSingleSpec ==
    /\ SingleSpec
    /\ WF_vars(\E t \in TimerIds : Expire(t))
    /\ WF_vars(timer_handler)
    /\ WF_vars(HandlerPrintValue \/ HandlerReturn)

(***************************************************************************)
(* The timer calls on their own: threads of one process create, set, read  *)
(* and delete timers and wait for their signal with sigtimedwait, the      *)
(* signal being blocked; the clock advances in seconds.                    *)
(***************************************************************************)
Threads == {0, 1}

\* the initial delays, in seconds, that the callers ask for
Delays == {2}

\* the timeouts, in seconds, of the waits
Timeouts == {0, 1}

ZeroSpec == Itimerspec(Timespec(0, 0), Timespec(0, 0))

\* the new_value arguments: disarm, one-shot, periodic every second
NewValues ==
    {ZeroSpec} \cup
    {Itimerspec(Timespec(v, 0), Timespec(i, 0)) : v \in Delays, i \in {0, 1}}

\* SIGUSR1
TIMER_SIG == 10

\* timer_gettime that reports the timer's settings
timer_gettime_settings(tms, lf, tid) ==
    IF tid \notin LiveTimers(tms) THEN [ret |-> -1, curr |-> ZeroSpec]
    ELSE [ret |-> 0,
          curr |-> Itimerspec(tms[tid].it_value, tms[tid].it_interval)]

\* timer_gettime(tid, &curr): the time remaining until the next expiration
\* and the interval; all zero for a timer that is not armed.  timer_settime
\* stores the same in old_value before it installs new_value.
timer_gettime(tms, lf, tid) ==
    IF tid \notin LiveTimers(tms) THEN [ret |-> -1, curr |-> ZeroSpec]
    ELSE [ret |-> 0,
          curr |-> IF tms[tid].armed
                   THEN Itimerspec(Timespec(lf[tid], 0), tms[tid].it_interval)
                   ELSE ZeroSpec]

\* timer_delete that keeps the queued-signal structure allocated
timer_delete_leak(tms, q, sp, tid) ==
    IF tid \notin LiveTimers(tms)
    THEN [ret |-> -1, timers |-> tms, sigq |-> q, sigpending |-> sp]
    ELSE [ret |-> 0,
          timers |-> [tms EXCEPT ![tid] = NoTimer],
          sigq |-> SelectSeq(q, LAMBDA x : x # tid),
          sigpending |-> sp]

\* timer_delete that frees a queued-signal structure also for an ID that
\* names no timer
timer_delete_unchecked(tms, q, sp, tid) ==
    IF tid \notin LiveTimers(tms)
    THEN [ret |-> -1, timers |-> tms, sigq |-> q, sigpending |-> sp - 1]
    ELSE [ret |-> 0,
          timers |-> [tms EXCEPT ![tid] = NoTimer],
          sigq |-> SelectSeq(q, LAMBDA x : x # tid),
          sigpending |-> sp - 1]

\* timer_delete that leaves a queued notification of the timer queued
timer_delete_lazy(tms, q, sp, tid) ==
    IF tid \notin LiveTimers(tms)
    THEN [ret |-> -1, timers |-> tms, sigq |-> q, sigpending |-> sp]
    ELSE [ret |-> 0,
          timers |-> [tms EXCEPT ![tid] = NoTimer],
          sigq |-> q,
          sigpending |-> sp - 1]

\* timer_delete(tid): the timer is stopped and its resources, the
\* preallocated queued-signal structure among them, are freed
timer_delete(tms, q, sp, tid) ==
    IF tid \notin LiveTimers(tms)
    THEN [ret |-> -1, timers |-> tms, sigq |-> q, sigpending |-> sp]
    ELSE [ret |-> 0,
          timers |-> [tms EXCEPT ![tid] = NoTimer],
          sigq |-> SelectSeq(q, LAMBDA x : x # tid),
          sigpending |-> sp - 1]

\* sigtimedwait that returns 0 when the timeout has passed
sigtimedwait_noerror(tms, q) ==
    IF q = << >>
    THEN [ret |-> 0, h |-> -1, info |-> NoSiginfo, timers |-> tms, sigq |-> q]
    ELSE LET t == Head(q)
         IN  [ret |-> TIMER_SIG, h |-> t,
              info |-> [si_value |-> tms[t].sigev_value,
                        si_overrun |-> tms[t].it_overrun],
              timers |-> [tms EXCEPT ![t].it_overrun_last = tms[t].it_overrun,
                                     ![t].it_overrun = 0],
              sigq |-> Tail(q)]

\* sigtimedwait(&set, &info, &timeout) at the moment it returns: the first
\* pending signal of the set with its siginfo, or -1 (EAGAIN) when the
\* timeout has passed with no signal pending
sigtimedwait(tms, q) ==
    IF q = << >>
    THEN [ret |-> -1, h |-> -1, info |-> NoSiginfo, timers |-> tms, sigq |-> q]
    ELSE LET t == Head(q)
         IN  [ret |-> TIMER_SIG, h |-> t,
              info |-> [si_value |-> tms[t].sigev_value,
                        si_overrun |-> tms[t].it_overrun],
              timers |-> [tms EXCEPT ![t].it_overrun_last = tms[t].it_overrun,
                                     ![t].it_overrun = 0],
              sigq |-> Tail(q)]

\* one second passes for timer t: it expires when its remaining time ends
TickTimer(st, t) ==
    IF ~(st.timers[t].live /\ st.timers[t].armed) THEN st
    ELSE IF st.left[t] > 1
    THEN [st EXCEPT !.left[t] = @ - 1]
    ELSE LET r  == send_sigqueue(st.timers, st.sigq, t)
             tm == Reload(r.timers[t])
         IN  [timers  |-> [r.timers EXCEPT ![t] = tm],
              sigq    |-> r.sigq,
              left    |-> [st.left EXCEPT ![t] = IF tm.armed
                                                 THEN tm.it_interval.tv_sec
                                                 ELSE 0],
              expired |-> [st.expired EXCEPT ![t] = @ + 1]]

RECURSIVE TickTimers(_, _)
TickTimers(st, ids) ==
    IF ids = {} THEN st
    ELSE LET t == Min(ids)
         IN  TickTimers(TickTimer(st, t), ids \ {t})

\* the record of a call op by thread th on the ID h with result r
CallRecord(op, th, h, r) ==
    [NoCall EXCEPT !.op = op, !.th = th, !.h = h, !.ret = r]

\* timer_create(CLOCK_REALTIME, &sev, &tidlist[th]) by thread th
ApiCreate(th) ==
    /\ pc = "calls"
    /\ LET r == timer_create(timers, sigpending, th)
       IN  /\ timers' = r.timers
           /\ sigpending' = r.sigpending
           /\ tidlist' = IF r.ret = 0 THEN [tidlist EXCEPT ![th] = r.id]
                         ELSE tidlist
           /\ call' = [CallRecord("create", th, IF r.ret = 0 THEN r.id ELSE -1,
                               r.ret)
                          EXCEPT !.free = SigPendingLimit - sigpending]
    /\ old' = ZeroSpec
    /\ atWait' = NoWait
    /\ UNCHANGED <<parseVars, pc, j, sev, ret, sigq, handlerVars, historyVars,
                   left, waitLeft, deleted>>

\* timer_settime(tidlist[th], 0, &new, &old) by thread th
ApiSettime(th, new) ==
    /\ pc = "calls"
    /\ LET h == tidlist[th]
           g == timer_gettime(timers, left, h)
           r == timer_settime(timers, h, new)
       IN  /\ timers' = r.timers
           /\ old' = IF r.ret = 0 THEN g.curr ELSE ZeroSpec
           /\ left' = IF r.ret = 0
                      THEN [left EXCEPT ![h] = new.it_value.tv_sec]
                      ELSE left
           /\ call' = [CallRecord("settime", th, h, r.ret) EXCEPT
                          !.again = (call.op = "settime" /\ call.h = h
                                       /\ call.ret = 0),
                          !.stale = h \in deleted,
                          !.same = (r.timers = timers),
                          !.live = h \in LiveTimers(timers),
                          !.armed = (h \in TimerIds /\ timers[h].armed),
                          !.remaining = IF h \in TimerIds THEN left[h] ELSE 0,
                          !.installed =
                              IF h \in TimerIds
                              THEN Itimerspec(timers[h].it_value,
                                              timers[h].it_interval)
                              ELSE ZeroSpec]
    /\ atWait' = NoWait
    /\ UNCHANGED <<parseVars, mainVars, sigq, sigpending, handlerVars,
                   historyVars, waitLeft, deleted>>

\* timer_gettime(tidlist[th], &old) by thread th
ApiGettime(th) ==
    /\ pc = "calls"
    /\ LET h == tidlist[th]
           g == timer_gettime(timers, left, h)
       IN  /\ old' = g.curr
           /\ call' = [CallRecord("gettime", th, h, g.ret) EXCEPT
                          !.stale = h \in deleted,
                          !.live = h \in LiveTimers(timers),
                          !.armed = (h \in TimerIds /\ timers[h].armed)]
    /\ atWait' = NoWait
    /\ UNCHANGED <<parseVars, mainVars, kernelVars, handlerVars, historyVars,
                   left, waitLeft, deleted>>

\* timer_delete(tidlist[th]) by thread th
ApiDelete(th) ==
    /\ pc = "calls"
    /\ LET h == tidlist[th]
           r == timer_delete(timers, sigq, sigpending, h)
       IN  /\ timers' = r.timers
           /\ sigq' = r.sigq
           /\ sigpending' = r.sigpending
           /\ left' = IF r.ret = 0 THEN [left EXCEPT ![h] = 0] ELSE left
           /\ expired' = IF r.ret = 0 THEN [expired EXCEPT ![h] = 0]
                         ELSE expired
           /\ deleted' = IF r.ret = 0 THEN deleted \cup {h} ELSE deleted
           /\ call' = [CallRecord("delete", th, h, r.ret) EXCEPT
                          !.round = (call.op = "create" /\ call.ret = 0
                                       /\ call.h = h),
                          !.free = call.free,
                          !.stale = h \in deleted,
                          !.same = (r.timers = timers /\ r.sigq = sigq
                                      /\ r.sigpending = sigpending),
                          !.live = h \in LiveTimers(timers),
                          !.armed = (h \in TimerIds /\ timers[h].armed),
                          !.queued = Queued(sigq, h)]
    /\ old' = ZeroSpec
    /\ atWait' = NoWait
    /\ UNCHANGED <<parseVars, mainVars, handlerVars, coalesced, lateExpired,
                   waitLeft>>

\* sigtimedwait(&set, &info, &timeout) is called with a timeout of d
\* seconds
ApiWait(th, d) ==
    /\ pc = "calls"
    /\ pc' = "waiting"
    /\ waitLeft' = d
    /\ atWait' = [short   |-> /\ \E t \in LiveTimers(timers) :
                                    timers[t].armed
                              /\ \A t \in LiveTimers(timers) :
                                    timers[t].armed => d < left[t],
                  pending |-> sigq # << >>,
                  timers  |-> timers]
    /\ call' = CallRecord("wait", th, -1, 0)
    /\ old' = ZeroSpec
    /\ UNCHANGED <<parseVars, j, tidlist, sev, ret, kernelVars, handlerVars,
                   historyVars, left, deleted>>

\* sigtimedwait returns: a signal of the set is pending or the timeout has
\* passed
ApiWaitReturn ==
    /\ pc = "waiting"
    /\ sigq # << >> \/ waitLeft = 0
    /\ LET r == sigtimedwait(timers, sigq)
       IN  /\ timers' = r.timers
           /\ sigq' = r.sigq
           /\ expired' = IF r.h # -1 THEN [expired EXCEPT ![r.h] = 0]
                         ELSE expired
           /\ call' = [call EXCEPT !.ret = r.ret, !.h = r.h,
                                   !.info = r.info]
    /\ pc' = "calls"
    /\ waitLeft' = 0
    /\ UNCHANGED <<parseVars, j, tidlist, sev, ret, sigpending, handlerVars,
                   coalesced, lateExpired, left, old, deleted, atWait>>

\* one second passes
Tick ==
    /\ pc = "waiting" => (sigq = << >> /\ waitLeft > 0)
    /\ \/ \E t \in LiveTimers(timers) : timers[t].armed
       \/ pc = "waiting"
       \/ call # NoCall
    /\ \A t \in LiveTimers(timers) :
          (timers[t].armed /\ left[t] = 1) =>
              timers[t].it_overrun < MaxOverrun
    /\ LET st == TickTimers([timers |-> timers, sigq |-> sigq,
                             left |-> left, expired |-> expired], TimerIds)
       IN  /\ timers' = st.timers
           /\ sigq' = st.sigq
           /\ left' = st.left
           /\ expired' = st.expired
    /\ IF pc = "waiting"
       THEN /\ waitLeft' = waitLeft - 1
            /\ UNCHANGED <<call, old, atWait>>
       ELSE /\ call' = NoCall
            /\ old' = ZeroSpec
            /\ atWait' = NoWait
            /\ UNCHANGED waitLeft
    /\ UNCHANGED <<parseVars, mainVars, sigpending, handlerVars, coalesced,
                   lateExpired, deleted>>

\* the process may hold two queued-signal structures more; no thread has
\* created a timer
ApiInit ==
    /\ argv = << >>
    /\ origArgv = << >>
    /\ ts = ZeroSpec
    /\ parsed = << >>
    /\ pc = "calls"
    /\ j = 0
    /\ tidlist = [th \in Threads |-> -1]
    /\ sev = 0
    /\ ret = 0
    /\ sigpending = SigPendingLimit - 2
    /\ NoKernel

\* the threads of the process create, set, read and delete timers
RegistryNext ==
    \/ \E th \in Threads : ApiCreate(th)
    \/ \E th \in Threads, new \in NewValues : ApiSettime(th, new)
    \/ \E th \in Threads : ApiGettime(th)
    \/ \E th \in Threads : ApiDelete(th)

RegistrySpec == ApiInit /\ [][RegistryNext]_vars

\* one thread creates, sets, reads and deletes its timer and waits for the
\* signal while the clock advances
TimedNext ==
    \/ ApiCreate(0)
    \/ \E new \in NewValues : ApiSettime(0, new)
    \/ ApiGettime(0)
    \/ ApiDelete(0)
    \/ \E d \in Timeouts : ApiWait(0, d)
    \/ ApiWaitReturn
    \/ Tick

TimedSpec == ApiInit /\ [][TimedNext]_vars

(***************************************************************************)
(* The parser on its own: one text buffer, parsed up to MaxParseCalls      *)
(* times into a structure that holds arbitrary values before the call.     *)
(***************************************************************************)
Part(s, n, withN) == IF withN THEN s \o <<"/">> \o n ELSE s

\* the texts sec[/nsec][:isec[/insec]] over Tokens, as NUL-terminated buffers
ParseTexts ==
    {Part(a, b, wb) \o <<NUL>> : a \in Tokens, b \in Tokens, wb \in BOOLEAN}
    \cup
    {Part(a, b, wb) \o <<":">> \o Part(c, d, wd) \o <<NUL>> :
        a \in Tokens, b \in Tokens, c \in Tokens, d \in Tokens,
        wb \in BOOLEAN, wd \in BOOLEAN}

ParseInit ==
    /\ \E t \in ParseTexts : argv = <<t>> /\ origArgv = <<t>>
    /\ ts \in GarbageTs
    /\ parsed = << >>
    /\ pc = "none"
    /\ sigpending = 0
    /\ NoProgram

\* itimerspecFromStr(argv[1], &ts)
ParseCall ==
    /\ Len(parsed) < MaxParseCalls
    /\ \E r \in itimerspecFromStr(argv[1], ts) :
          /\ argv' = [argv EXCEPT ![1] = r.str]
          /\ ts' = r.tsp
          /\ parsed' = Append(parsed, r.tsp)
    /\ UNCHANGED <<apiVars, origArgv, mainVars, kernelVars, handlerVars, historyVars>>

ParseNext == ParseCall

ParseSpec == ParseInit /\ [][ParseNext]_vars


(***************************************************************************)
(* The grammar sec[/nsec][:isec[/insec]] read off the original text,       *)
(* independently of the parser.                                            *)
(***************************************************************************)
\* the original text without its terminating NUL
OrigText == SubSeq(origArgv[1], 1, Len(origArgv[1]) - 1)

Occurrences(t, c) == Cardinality({i \in 1..Len(t) : t[i] = c})

FirstIndex(t, c) ==
    IF \E i \in 1..Len(t) : t[i] = c
    THEN Min({i \in 1..Len(t) : t[i] = c})
    ELSE 0

HasColon == FirstIndex(OrigText, ":") # 0

\* the text before the first ':' and the text after it
InitialPart ==
    IF HasColon THEN SubSeq(OrigText, 1, FirstIndex(OrigText, ":") - 1)
    ELSE OrigText

IntervalPart ==
    IF HasColon
    THEN SubSeq(OrigText, FirstIndex(OrigText, ":") + 1, Len(OrigText))
    ELSE << >>

HasSlash(part) == FirstIndex(part, "/") # 0

SecTok(part) ==
    IF HasSlash(part) THEN SubSeq(part, 1, FirstIndex(part, "/") - 1)
    ELSE part

NsecTok(part) ==
    IF HasSlash(part) THEN SubSeq(part, FirstIndex(part, "/") + 1, Len(part))
    ELSE << >>

\* a decimal integer: an optional '-' and one or more digits
IsDecimal(tok) ==
    LET d == IF Len(tok) > 0 /\ tok[1] = "-" THEN Tail(tok) ELSE tok
    IN  Len(d) > 0 /\ \A i \in 1..Len(d) : d[i] \in Digits

\* the value of a digit string, or -1 when it exceeds INT_MAX
RECURSIVE DigitsValue(_, _)
DigitsValue(d, acc) ==
    IF d = << >> THEN acc
    ELSE IF acc = -1 \/ acc > (INT_MAX - DigitVal(Head(d))) \div 10 THEN -1
    ELSE DigitsValue(Tail(d), acc * 10 + DigitVal(Head(d)))

Negative(tok) == Len(tok) > 0 /\ tok[1] = "-"

Magnitude(tok) == DigitsValue(IF Negative(tok) THEN Tail(tok) ELSE tok, 0)

\* the decimal integer tok is the number v
Denotes(tok, v) ==
    /\ Magnitude(tok) # -1
    /\ v = IF Negative(tok) THEN -Magnitude(tok) ELSE Magnitude(tok)

FullForm ==
    /\ Occurrences(OrigText, ":") = 1
    /\ Occurrences(InitialPart, "/") = 1
    /\ Occurrences(IntervalPart, "/") = 1
    /\ IsDecimal(SecTok(InitialPart)) /\ IsDecimal(NsecTok(InitialPart))
    /\ IsDecimal(SecTok(IntervalPart)) /\ IsDecimal(NsecTok(IntervalPart))

Called == Len(parsed) >= 1

\* C1: for every text of the full form "S/N:I/J" with decimal integers
\* S, N, I, J the parser yields it_value = (S, N) and it_interval = (I, J).
C1_FullFormYieldsFields ==
    (Called /\ FullForm) =>
        /\ Denotes(SecTok(InitialPart), parsed[1].it_value.tv_sec)
        /\ Denotes(NsecTok(InitialPart), parsed[1].it_value.tv_nsec)
        /\ Denotes(SecTok(IntervalPart), parsed[1].it_interval.tv_sec)
        /\ Denotes(NsecTok(IntervalPart), parsed[1].it_interval.tv_nsec)

\* C2: a component that the text omits is 0 in the result, whatever the
\* structure held before the call, and after the call no field still holds
\* its value from before the call.
C2_OmittedFieldsAreZero ==
    Called =>
        /\ ~HasSlash(InitialPart) => parsed[1].it_value.tv_nsec = 0
        /\ ~HasColon => parsed[1].it_interval = Timespec(0, 0)
        /\ (HasColon /\ ~HasSlash(IntervalPart)) =>
               parsed[1].it_interval.tv_nsec = 0
        /\ OrigText = Tok5 => parsed[1] = Itimerspec(Timespec(5, 0),
                                                      Timespec(0, 0))
        /\ ts = parsed[Len(parsed)]
        /\ Unassigned \notin {ts.it_value.tv_sec, ts.it_value.tv_nsec,
                              ts.it_interval.tv_sec, ts.it_interval.tv_nsec}

\* a call on a text that omits every optional component, into a structure
\* that held other values
C2_Witness ==
    /\ Called
    /\ ~HasColon /\ ~HasSlash(InitialPart)
    /\ OrigText = Tok5
    /\ parsed[1] = Itimerspec(Timespec(5, 0), Timespec(0, 0))

\* a token that strtol would consume whole: optional blanks, an optional
\* sign, one or more digits
ValidInteger(tok) ==
    \E k \in 0..Len(tok) :
        /\ \A i \in 1..k : IsSpace(tok[i])
        /\ LET r == SubSeq(tok, k + 1, Len(tok))
               d == IF Len(r) > 0 /\ r[1] \in {"-", "+"} THEN Tail(r) ELSE r
           IN  Len(d) > 0 /\ \A i \in 1..Len(d) : d[i] \in Digits

\* the tokens of the text with the fields they are parsed into
TokenFields ==
    {<<SecTok(InitialPart), parsed[1].it_value.tv_sec>>}
    \cup (IF HasSlash(InitialPart)
          THEN {<<NsecTok(InitialPart), parsed[1].it_value.tv_nsec>>}
          ELSE {})
    \cup (IF HasColon
          THEN {<<SecTok(IntervalPart), parsed[1].it_interval.tv_sec>>}
          ELSE {})
    \cup (IF HasColon /\ HasSlash(IntervalPart)
          THEN {<<NsecTok(IntervalPart), parsed[1].it_interval.tv_nsec>>}
          ELSE {})

\* C3 as stated: every token that is not a valid integer yields 0.
C3_InvalidTokenYieldsZero ==
    Called => \A tf \in TokenFields : ~ValidInteger(tf[1]) => tf[2] = 0

\* the digits a token starts with
LeadingDigits(tok) ==
    LET n == IF \E i \in 1..Len(tok) : tok[i] \notin Digits
             THEN Min({i \in 1..Len(tok) : tok[i] \notin Digits}) - 1
             ELSE Len(tok)
    IN  SubSeq(tok, 1, n)

\* C3 amended: the parser returns a result for every text; a token that
\* does not start with an integer yields 0, and a token of digits followed
\* by other characters yields the number its leading digits denote.
C3_LenientPrefix ==
    Called =>
        \A tf \in TokenFields :
            /\ (tf[1] = << >> \/ tf[1][1] \notin Digits \cup {"-", "+", " "})
                   => tf[2] = 0
            /\ (LeadingDigits(tf[1]) # << >>
                  /\ DigitsValue(LeadingDigits(tf[1]), 0) # -1)
                   => tf[2] = DigitsValue(LeadingDigits(tf[1]), 0)

\* a token of digits followed by another character has been parsed
C3_Witness ==
    /\ Called
    /\ \E tf \in TokenFields : tf[1] = Tok5x /\ tf[2] = 5
    /\ \E tf \in TokenFields : tf[1] = TokX /\ tf[2] = 0

\* C4: the text is unchanged by the call, and a second call on the same
\* buffer yields the same result as the first.
C4_TextUnchanged ==
    /\ Called => argv[1] = origArgv[1]
    /\ Len(parsed) >= 2 => parsed[2] = parsed[1]

\* the textual nanoseconds fields (digit strings) with the fields they are
\* parsed into
NsecFields ==
    {tf \in (IF HasSlash(InitialPart)
             THEN {<<NsecTok(InitialPart), parsed[1].it_value.tv_nsec>>}
             ELSE {})
            \cup
            (IF HasColon /\ HasSlash(IntervalPart)
             THEN {<<NsecTok(IntervalPart), parsed[1].it_interval.tv_nsec>>}
             ELSE {}) :
        IsDecimal(tf[1]) /\ ~Negative(tf[1])}

\* C5: a nanoseconds component parsed from a textual nanoseconds field is in
\* 0 .. 999999999; a field of 1000000000 or more is not passed through
\* unchanged.
C5_NsecNormalized ==
    Called => \A tf \in NsecFields : tf[2] \in 0..(NSEC_PER_SEC - 1)

(***************************************************************************)
(* Expirations, notifications and overruns                                 *)
(***************************************************************************)
\* the timer whose notification handler is handling
Handled == tidlist[tidptr]

InHandler == hpc # "idle"

\* t was armed with a non-zero initial delay and a zero interval
OneShot(t) ==
    /\ timers[t].live
    /\ timers[t].it_value # Timespec(0, 0)
    /\ timers[t].it_interval = Timespec(0, 0)

Periodic(t) ==
    /\ timers[t].live
    /\ timers[t].it_value # Timespec(0, 0)
    /\ timers[t].it_interval # Timespec(0, 0)

TimesQueued(q, t) == Cardinality({i \in 1..Len(q) : q[i] = t})

\* the step is an expiration of t
Expires(t) == expired'[t] = expired[t] + 1

\* the step delivers the notification of t
Delivers(t) == hpc = "idle" /\ hpc' = "getoverrun" /\ Head(sigq) = t

\* the one expiration of a one-shot timer disarms it and queues its one
\* notification; a disarmed one-shot timer does not expire, and once its
\* notification has left the queue none is queued again
OneShotStep(t) ==
    OneShot(t) =>
        /\ Expires(t) =>
              /\ timers[t].armed /\ ~Queued(sigq, t)
              /\ ~timers'[t].armed /\ TimesQueued(sigq', t) = 1
        /\ Delivers(t) => (si'.si_overrun = 0 /\ ~Queued(sigq', t))
        /\ (~timers[t].armed /\ OneShot(t)') =>
              /\ ~timers'[t].armed
              /\ ~Queued(sigq, t) => ~Queued(sigq', t)
        /\ (hpc = "getoverrun" /\ hpc' = "return" /\ Handled = t) =>
              overrun' = 0

\* the one notification of t has been delivered and handled
OneShotDone(t) ==
    /\ OneShot(t) /\ ~timers[t].armed /\ ~Queued(sigq, t)
    /\ ~(InHandler /\ Handled = t)

\* C6: a one-shot timer armed with a non-zero initial delay delivers exactly
\* one notification, with overrun count 0, and is disarmed afterwards: it
\* expires once, no second notification is queued or delivered, and while
\* the process lives the one notification is delivered and handled.
C6_OneShotDeliversOnce ==
    /\ [][\A t \in TimerIds : OneShotStep(t)]_vars
    /\ \A t \in TimerIds :
          (OneShot(t) /\ timers[t].armed) ~> (pc = "exited" \/ OneShotDone(t))

\* handler has read the overrun count of the notification of a one-shot
\* timer, which is disarmed
C6_Witness ==
    \E t \in TimerIds :
        /\ OneShot(t) /\ ~timers[t].armed /\ ~Queued(sigq, t)
        /\ hpc = "return" /\ Handled = t /\ overrun = 0

\* C7: when N >= 1 expirations of a timer pass before its notification is
\* consumed, the one notification delivered carries overrun count N - 1,
\* and that is the value handler reads with timer_getoverrun.
C7_OverrunIsMissedMinusOne ==
    InHandler =>
        /\ coalesced >= 1
        /\ si.si_overrun = coalesced - 1
        /\ hpc = "return" => overrun = coalesced - 1

\* handler has read the count of a notification that stands for two
\* expirations of a periodic timer
C7_Witness ==
    /\ hpc = "return"
    /\ Periodic(Handled)
    /\ coalesced = 2
    /\ overrun = 1

\* C8: each timer has at most one notification pending, and an expiration
\* of a timer whose notification is pending leaves the queue as it is and
\* adds one to the timer's overrun counter.
C8_OnePendingPerTimer ==
    /\ [](\A t \in TimerIds : TimesQueued(sigq, t) <= 1)
    /\ [][\A t \in TimerIds :
            (Expires(t) /\ Queued(sigq, t)) =>
                /\ sigq' = sigq
                /\ timers'[t].it_overrun = timers[t].it_overrun + 1]_vars

\* a timer has expired again while its notification was pending
C8_Witness ==
    \E t \in TimerIds :
        /\ Queued(sigq, t)
        /\ timers[t].it_overrun >= 1
        /\ expired[t] = timers[t].it_overrun + 1

\* C9: the count delivered with a notification is the count of the overruns
\* before the delivery, the timer's counter restarts at 0 in the delivery
\* step, and the value handler reads later with timer_getoverrun is the
\* delivered count, whatever expired in between.
C9_CountFixedAtDelivery ==
    [][/\ \A t \in TimerIds :
            Delivers(t) =>
                /\ si'.si_overrun = timers[t].it_overrun
                /\ timers'[t].it_overrun = 0
       /\ (hpc = "getoverrun" /\ hpc' = "return") =>
                overrun' = si.si_overrun]_vars

\* the timer expired twice between the delivery and the read, and the
\* value read is still the delivered count
C9_Witness ==
    /\ hpc = "return"
    /\ lateExpired = 2
    /\ timers[Handled].it_overrun = 1
    /\ overrun = 0 /\ si.si_overrun = 0

\* C10: timer_create called with no queued-signal structure left fails and
\* changes neither the timers, nor the slot count, nor the caller's ID.
C10_CreateFailsCleanly ==
    [][(pc = "create" /\ pc' = "create_chk"
           /\ sigpending >= SigPendingLimit) =>
          /\ ret' = -1
          /\ timers' = timers
          /\ sigpending' = sigpending
          /\ tidlist' = tidlist]_vars

\* a second timer_create has failed at the limit, the first timer is intact
C10_Witness ==
    /\ pc = "create_chk" /\ ret = -1
    /\ j = 1
    /\ sigpending = SigPendingLimit
    /\ LiveTimers(timers) = {0}

(***************************************************************************)
(* Several timers on one signal; payloads; timers that are not armed       *)
(***************************************************************************)
\* C13: every created timer has its own queued-signal structure, so no
\* expiration is dropped: a timer that has expired since its last delivery
\* has its notification queued, also when the notification of another
\* timer on the same signal is pending or being handled, and while the
\* process lives that notification is delivered to handler.
C13_NeverDropped ==
    /\ [](\A t \in TimerIds : expired[t] > 0 => Queued(sigq, t))
    /\ [][\A t \in TimerIds : Expires(t) => Queued(sigq', t)]_vars
    /\ \A t \in TimerIds :
          Queued(sigq, t) ~> (pc = "exited" \/ (InHandler /\ Handled = t))

\* handler handles one timer while that timer and then another expired
C13_Witness ==
    \E t, u \in TimerIds :
        /\ t # u
        /\ InHandler /\ Handled = u
        /\ sigq = <<u, t>>

\* C14: the payload delivered with a notification is the payload registered
\* for its timer at timer_create (here the address of the timer's slot of
\* tidlist), a handler invocation takes exactly one notification off the
\* queue, and the payload is not that of another timer.
C14_PayloadIsRegistered ==
    [][/\ (pc = "create" /\ pc' = "create_chk" /\ ret' = 0) =>
              timers'[tidlist'[j]].sigev_value = sev
       /\ \A t \in TimerIds :
             /\ (timers[t].live /\ timers'[t].live) =>
                    timers'[t].sigev_value = timers[t].sigev_value
             /\ Delivers(t) =>
                    /\ si'.si_value = timers[t].sigev_value
                    /\ tidlist[si'.si_value] = t
                    /\ Len(sigq') = Len(sigq) - 1
                    /\ \A u \in LiveTimers(timers) \ {t} :
                          si'.si_value # timers[u].sigev_value]_vars

\* handler got the payload of the second timer while the notification of
\* the first is pending
C14_Witness ==
    /\ DOMAIN tidlist = 0..1
    /\ InHandler
    /\ si.si_value = 1 /\ Handled = tidlist[1]
    /\ Queued(sigq, tidlist[0])
    /\ tidlist[0] # tidlist[1]

\* C18: a timer that is created but not armed, or armed with a zero
\* it_value, has never expired and has no notification queued or in
\* handler; only an armed timer expires, so a one-shot timer that has
\* expired does not expire again.
C18_UnarmedNeverFires ==
    /\ [](\A t \in TimerIds :
            (timers[t].live /\ timers[t].it_value = Timespec(0, 0)) =>
                /\ expired[t] = 0
                /\ ~Queued(sigq, t)
                /\ ~(InHandler /\ Handled = t))
    /\ [][\A t \in TimerIds :
            Expires(t) => (timers[t].live /\ timers[t].armed)]_vars

\* the second timer is created and not yet armed while handler handles a
\* notification of the first
C18_Witness ==
    /\ DOMAIN tidlist = 0..1
    /\ pc = "settime" /\ j = 1
    /\ timers[tidlist[1]].live /\ ~timers[tidlist[1]].armed
    /\ tidlist[0] # tidlist[1]
    /\ InHandler /\ Handled = tidlist[0]

\* C19: a periodic timer is armed again after each of its expirations, and
\* in the single-timer programs, whose timer is never set again or deleted,
\* its notification is delivered again and again, timer_handler returning
\* each time to the pause loop.
C19_PeriodicKeepsFiring ==
    /\ [][\A t \in TimerIds :
            (Periodic(t) /\ Expires(t)) =>
                (timers[t].armed /\ timers'[t].armed /\ Queued(sigq', t))]_vars
    /\ \A t \in TimerIds :
          (Periodic(t) /\ hpc = "idle") ~>
              (InHandler /\ si.si_value = timers[t].sigev_value)
    /\ InHandler ~> (hpc = "idle" /\ pc = "s_pause")

\* timer_handler runs for the periodic timer, which has expired again
C19_Witness ==
    \E t \in TimerIds :
        /\ Periodic(t) /\ timers[t].armed
        /\ InHandler /\ si.si_value = sival_int_first
        /\ Queued(sigq, t)
        /\ pc = "s_pause"

(***************************************************************************)
(* The timer calls: slots, handles, previous settings, deletion, waits     *)
(***************************************************************************)
\* C11: timer_create followed immediately by timer_delete of the ID it
\* returned leaves as many queued-signal structures free as there were
\* before the timer_create.
C11_CreateDeleteRoundTrip ==
    (call.op = "delete" /\ call.round) =>
        /\ call.ret = 0
        /\ SigPendingLimit - sigpending = call.free

\* a timer has been created and deleted at once while another timer lives
C11_Witness ==
    /\ call.op = "delete" /\ call.round /\ call.ret = 0
    /\ call.free = 1
    /\ Cardinality(LiveTimers(timers)) = 1

\* C12: whatever the order of the timer_create and timer_delete calls of
\* the threads, the queued-signal structures allocated are those that were
\* allocated at the start plus one for each timer that exists, and their
\* number does not exceed the limit.
C12_SlotsMatchLiveTimers ==
    /\ sigpending = (SigPendingLimit - 2) + Cardinality(LiveTimers(timers))
    /\ sigpending <= SigPendingLimit
    /\ sigpending >= SigPendingLimit - 2

\* the second thread's timer_create fails at the limit after a timer has
\* been deleted and its slot taken again
C12_Witness ==
    /\ call.op = "create" /\ call.ret = -1 /\ call.th = 1
    /\ sigpending = SigPendingLimit
    /\ deleted # {}
    /\ tidlist[0] \in LiveTimers(timers)

C20_ShortWaitTimesOut ==
    (call.op = "wait" /\ pc = "calls" /\ atWait.short) =>
        /\ call.ret = -1
        /\ call.info = NoSiginfo
        /\ timers = atWait.timers

\* C20 amended: the same, provided that no notification is pending when
\* the wait begins.
C20_ShortWaitNothingPending ==
    (call.op = "wait" /\ pc = "calls" /\ atWait.short /\ ~atWait.pending) =>
        /\ call.ret = -1
        /\ call.info = NoSiginfo
        /\ timers = atWait.timers

\* a wait of 1 second has timed out 1 second before the timer expires
C20_Witness ==
    /\ call.op = "wait" /\ pc = "calls"
    /\ atWait.short /\ ~atWait.pending
    /\ call.ret = -1
    /\ \E t \in LiveTimers(timers) :
          /\ timers[t].armed /\ left[t] = 1
          /\ atWait.timers[t].armed

(***************************************************************************)
(* Failures of the timer calls as the programs see them                    *)
(***************************************************************************)
\* C21: a program goes on to arm a timer only when its timer_create has
\* succeeded, and reaches its pause loop only when every timer_create and
\* timer_settime has succeeded: a failed call is never passed over.
C21_FailureObserved ==
    /\ pc \in {"settime", "s_settime"} => tidlist[j] \in LiveTimers(timers)
    /\ pc \in {"pause", "s_pause"} =>
          /\ ret = 0
          /\ \A i \in DOMAIN tidlist : tidlist[i] \in LiveTimers(timers)

(***************************************************************************)
(* The multi-timer program with the printf calls of main as they run:      *)
(* TIMER_SIG is not blocked in main, so it is delivered also while main is *)
(* inside printf.                                                          *)
(***************************************************************************)
\* main is inside printf (line 58 or line 67)
InPrintf == pc \in {"printf_spec", "printf_id"}

\* lines 55-58: itimerspecFromStr(argv[j + 1], &ts); main enters printf
ParsePrintfEnter ==
    /\ pc = "parse" /\ hpc = "idle"
    /\ \E r \in itimerspecFromStr(argv[j + 1], ts) :
          /\ argv' = [argv EXCEPT ![j + 1] = r.str]
          /\ ts' = r.tsp
          /\ parsed' = Append(parsed, r.tsp)
    /\ pc' = "printf_spec"
    /\ UNCHANGED <<apiVars, origArgv, j, tidlist, sev, ret, kernelVars,
                   handlerVars, historyVars>>

\* lines 58-61: printf returns; sev.sigev_value.sival_ptr = &tidlist[j]
ParsePrintfReturn ==
    /\ pc = "printf_spec" /\ hpc = "idle"
    /\ sev' = j
    /\ pc' = "create"
    /\ UNCHANGED <<apiVars, parseVars, j, tidlist, ret, kernelVars,
                   handlerVars, historyVars>>

\* lines 64-67: if (... == -1) errExit("timer_create"); main enters printf
CreateChkPrintfEnter ==
    /\ pc = "create_chk" /\ hpc = "idle"
    /\ IF ret = -1
       THEN Exit
       ELSE /\ pc' = "printf_id"
            /\ UNCHANGED <<kernelVars, expired>>
    /\ UNCHANGED <<apiVars, parseVars, j, tidlist, sev, ret, handlerVars,
                   coalesced, lateExpired>>

\* line 67: printf returns
CreatePrintfReturn ==
    /\ pc = "printf_id" /\ hpc = "idle"
    /\ pc' = "settime"
    /\ UNCHANGED <<apiVars, parseVars, j, tidlist, sev, ret, kernelVars,
                   handlerVars, historyVars>>

\* the signal is delivered while main is inside printf and the printf of
\* handler (line 19) waits for the lock of stdout, which main holds and
\* cannot release: printf is not async-signal-safe, and besides output
\* that is mixed or lost (Deliver) this is what a build may do
DeliverBlocked ==
    /\ InPrintf
    /\ hpc = "idle"
    /\ sigq # << >>
    /\ LET t == Head(sigq)
       IN  /\ si' = [si_value |-> timers[t].sigev_value,
                     si_overrun |-> timers[t].it_overrun]
           /\ timers' = [timers EXCEPT ![t].it_overrun_last = timers[t].it_overrun,
                                       ![t].it_overrun = 0]
           /\ tidptr' = timers[t].sigev_value
           /\ coalesced' = expired[t]
           /\ expired' = [expired EXCEPT ![t] = 0]
    /\ sigq' = Tail(sigq)
    /\ hpc' = "blocked"
    /\ UNCHANGED <<apiVars, parseVars, mainVars, sigpending, overrun, lateExpired>>

StreamNext ==
    \/ Start
    \/ ParsePrintfEnter
    \/ ParsePrintfReturn
    \/ Create
    \/ CreateChkPrintfEnter
    \/ CreatePrintfReturn
    \/ Settime
    \/ SettimeChk
    \/ \E t \in TimerIds : Expire(t)
    \/ Deliver
    \/ DeliverBlocked
    \/ HandlerGetOverrun
    \/ HandlerReturn

StreamSpec == Init /\ [][StreamNext]_vars

\* C22: handler, which writes to stdout with printf, never runs while main
\* is inside a printf of its own.
C22_NoReentrantWrite == InPrintf => hpc = "idle"

(***************************************************************************)
(* Order of the notifications of one timer                                 *)
(***************************************************************************)
\* C23: the notifications of one timer are delivered in the order of its
\* expirations: an expiration either queues the timer's notification at the
\* tail or is counted with the one that is queued, and a delivery takes the
\* notification that stands for all expirations since the delivery before
\* (overrun count: their number less one), leaving none of them to a later
\* notification.
C23_DeliveredInExpirationOrder ==
    [][\A t \in TimerIds :
          /\ Expires(t) =>
                \/ Queued(sigq, t) /\ sigq' = sigq
                \/ ~Queued(sigq, t) /\ sigq' = Append(sigq, t)
          /\ Delivers(t) =>
                /\ expired[t] >= 1
                /\ si'.si_overrun = expired[t] - 1
                /\ expired'[t] = 0
                /\ ~Queued(sigq', t)]_vars

\* handler handles a notification that stands for two expirations of a
\* timer whose next expiration has queued its next notification
C23_Witness ==
    \E t \in TimerIds :
        /\ InHandler /\ Handled = t
        /\ coalesced = 2 /\ si.si_overrun = 1
        /\ expired[t] = 1 /\ Queued(sigq, t)

(***************************************************************************)
(* The handles and payloads of the multi-timer program                     *)
(***************************************************************************)
\* the slots of tidlist that a successful timer_create has written
Written ==
    {i \in DOMAIN tidlist :
        \/ i < j
        \/ i = j /\ pc \in {"settime", "settime_chk"}
        \/ i = j /\ pc = "create_chk" /\ ret = 0}

\* C24: the handles that the successful timer_create calls have written to
\* tidlist are pairwise different, each is the handle of the one live timer
\* that was created for its slot, and a written handle does not change.
C24_HandlesDistinct ==
    /\ [](\A a, b \in Written : a # b => tidlist[a] # tidlist[b])
    /\ [](pc # "exited" =>
            \A a \in Written :
                /\ timers[tidlist[a]].live
                /\ timers[tidlist[a]].sigev_value = a)
    /\ [][\A a \in Written : tidlist'[a] = tidlist[a]]_vars

\* two timers exist and handler prints the handle of the second
C24_Witness ==
    /\ pc = "pause" /\ NArgs = 2
    /\ Written = {0, 1}
    /\ tidlist[0] # tidlist[1]
    /\ hpc = "getoverrun" /\ tidptr = 1 /\ Handled = tidlist[1]

(***************************************************************************)
(* sevpDefault.c: one one-shot timer created with evp == NULL; the clock   *)
(* advances in seconds.                                                    *)
(***************************************************************************)
SIGALRM == 14

\* sleep(3)
SleepSecs == 3

\* a default notification on the signal of the other programs
DefaultSigevent_usr1(id) == [sigev_signo |-> TIMER_SIG, sigev_value |-> id]

\* the notification of a timer created with evp == NULL: SIGEV_SIGNAL with
\* SIGALRM, sigev_value.sival_int the timer ID
DefaultSigevent(id) == [sigev_signo |-> SIGALRM, sigev_value |-> id]

\* timer_create(CLOCK_REALTIME, NULL, &timerid)
timer_create_null(tms, sp) ==
    LET r  == timer_create(tms, sp, 0)
        ev == DefaultSigevent(r.id)
    IN  IF r.ret = -1 THEN r
        ELSE [r EXCEPT !.timers[r.id] =
                  [@ EXCEPT !.sigev_value = ev.sigev_value]
                  @@ [sigev_signo |-> ev.sigev_signo]]

\* the kernel deletes every timer of the process: the timers stop, their
\* queued notifications and queued-signal structures are freed
DeleteAllTimers(tms, q, sp) ==
    [timers     |-> [t \in TimerIds |-> NoTimer],
     sigq       |-> SelectSeq(q, LAMBDA x : ~tms[x].live),
     sigpending |-> sp - Cardinality(LiveTimers(tms))]

\* its as lines 20-23 set it: 2 s, one-shot
DefaultIts == Itimerspec(Timespec(2, 0), Timespec(0, 0))

\* line 14: signal(SIGALRM, sigalrm_handler)
DefaultSignal ==
    /\ pc = "d_signal"
    /\ pc' = "d_its"
    /\ UNCHANGED <<apiVars, parseVars, j, tidlist, sev, ret, kernelVars,
                   handlerVars, historyVars>>

\* lines 20-23: its
DefaultSetIts ==
    /\ pc = "d_its"
    /\ ts' = DefaultIts
    /\ pc' = "d_create"
    /\ UNCHANGED <<apiVars, argv, parsed, origArgv, j, tidlist, sev, ret,
                   kernelVars, handlerVars, historyVars>>

\* line 26: timer_create(CLOCK_REALTIME, NULL, &timerid)
DefaultCreate ==
    /\ pc = "d_create"
    /\ LET r == timer_create_null(timers, sigpending)
       IN  /\ ret' = r.ret
           /\ timers' = r.timers
           /\ sigpending' = r.sigpending
           /\ tidlist' = IF r.ret = 0 THEN [tidlist EXCEPT ![0] = r.id]
                         ELSE tidlist
    /\ pc' = "d_create_chk"
    /\ UNCHANGED <<apiVars, parseVars, j, sev, sigq, handlerVars, historyVars>>

\* lines 26-27: if (... == -1) perror("timer_create")
DefaultCreateChk ==
    /\ pc = "d_create_chk"
    /\ pc' = IF ret = -1 THEN "d_exit" ELSE "d_settime"
    /\ UNCHANGED <<apiVars, parseVars, j, tidlist, sev, ret, kernelVars,
                   handlerVars, historyVars>>

\* lines 28, 34: exit(EXIT_FAILURE)
DefaultExit ==
    /\ pc = "d_exit" /\ hpc = "idle"
    /\ Exit
    /\ left' = [t \in TimerIds |-> 0]
    /\ UNCHANGED <<parseVars, j, tidlist, sev, ret, handlerVars, coalesced,
                   lateExpired, waitLeft, old, call, deleted, atWait>>

\* line 32: timer_settime(timerid, 0, &its, NULL)
DefaultSettime ==
    /\ pc = "d_settime" /\ hpc = "idle"
    /\ LET r == timer_settime(timers, tidlist[0], ts)
       IN  /\ ret' = r.ret
           /\ timers' = r.timers
           /\ left' = IF r.ret = 0
                      THEN [left EXCEPT ![tidlist[0]] = ts.it_value.tv_sec]
                      ELSE left
    /\ pc' = "d_settime_chk"
    /\ UNCHANGED <<parseVars, j, tidlist, sev, sigq, sigpending, handlerVars,
                   historyVars, waitLeft, old, call, deleted, atWait>>

\* lines 32-33: if (... == -1) perror("timer_settime")
DefaultSettimeChk ==
    /\ pc = "d_settime_chk" /\ hpc = "idle"
    /\ pc' = IF ret = -1 THEN "d_exit" ELSE "d_printf"
    /\ UNCHANGED <<apiVars, parseVars, j, tidlist, sev, ret, kernelVars,
                   handlerVars, historyVars>>

\* lines 38-39: printf; sleep(3) begins
DefaultSleep ==
    /\ pc = "d_printf" /\ hpc = "idle"
    /\ pc' = "d_sleep"
    /\ waitLeft' = SleepSecs
    /\ UNCHANGED <<parseVars, j, tidlist, sev, ret, kernelVars, handlerVars,
                   historyVars, left, old, call, deleted, atWait>>

\* one second passes, for the armed timer and for the sleep
DefaultTick ==
    /\ pc \in {"d_settime_chk", "d_printf", "d_sleep"}
    /\ pc = "d_sleep" => waitLeft > 0
    /\ pc # "d_sleep" => \E t \in LiveTimers(timers) : timers[t].armed
    /\ LET st == TickTimers([timers |-> timers, sigq |-> sigq,
                             left |-> left, expired |-> expired], TimerIds)
       IN  /\ timers' = st.timers
           /\ sigq' = st.sigq
           /\ left' = st.left
           /\ expired' = st.expired
    /\ waitLeft' = IF pc = "d_sleep" THEN waitLeft - 1 ELSE waitLeft
    /\ UNCHANGED <<parseVars, mainVars, sigpending, handlerVars, coalesced,
                   lateExpired, old, call, deleted, atWait>>

\* the signal of a timer is delivered: sigalrm_handler is entered if it is
\* the signal the handler was installed for, otherwise the signal's default
\* action ends the process
sigalrm_handler ==
    /\ pc \in {"d_settime_chk", "d_printf", "d_sleep"}
    /\ hpc = "idle"
    /\ sigq # << >>
    /\ LET t    == Head(sigq)
           info == [si_signo   |-> timers[t].sigev_signo,
                    si_value   |-> timers[t].sigev_value,
                    si_overrun |-> timers[t].it_overrun]
       IN  IF timers[t].sigev_signo = SIGALRM
           THEN /\ si' = info
                /\ call' = [CallRecord("sigalrm_handler", 0, t, 0)
                               EXCEPT !.info = info]
                /\ timers' = [timers EXCEPT
                                 ![t].it_overrun_last = timers[t].it_overrun,
                                 ![t].it_overrun = 0]
                /\ sigq' = Tail(sigq)
                /\ coalesced' = expired[t]
                /\ expired' = [expired EXCEPT ![t] = 0]
                /\ hpc' = "h_printf"
                /\ UNCHANGED <<pc, sigpending, left>>
           ELSE LET k == DeleteAllTimers(timers, sigq, sigpending)
                IN  /\ pc' = "killed"
                    /\ timers' = k.timers
                    /\ sigq' = k.sigq
                    /\ sigpending' = k.sigpending
                    /\ left' = [u \in TimerIds |-> 0]
                    /\ expired' = [u \in TimerIds |-> 0]
                    /\ UNCHANGED <<si, call, coalesced, hpc>>
    /\ UNCHANGED <<parseVars, j, tidlist, sev, ret, tidptr, overrun,
                   lateExpired, waitLeft, old, deleted, atWait>>

\* line 9: printf("SIGALRM received: Timer expired!\n")
SigalrmPrintf ==
    /\ hpc = "h_printf"
    /\ hpc' = "h_return"
    /\ UNCHANGED <<apiVars, parseVars, mainVars, kernelVars, si, tidptr,
                   overrun, historyVars>>

\* line 10: sigalrm_handler returns, which ends a sleep in progress
SigalrmReturn ==
    /\ hpc = "h_return"
    /\ hpc' = "idle"
    /\ si' = NoSiginfo
    /\ coalesced' = 0
    /\ waitLeft' = IF pc = "d_sleep" THEN 0 ELSE waitLeft
    /\ UNCHANGED <<parseVars, mainVars, kernelVars, tidptr, overrun, expired,
                   lateExpired, left, old, call, deleted, atWait>>

\* lines 39-41: sleep returns; return 0: the process ends
DefaultReturn ==
    /\ pc = "d_sleep" /\ hpc = "idle"
    /\ waitLeft = 0 /\ sigq = << >>
    /\ LET k == DeleteAllTimers(timers, sigq, sigpending)
       IN  /\ timers' = k.timers
           /\ sigq' = k.sigq
           /\ sigpending' = k.sigpending
    /\ left' = [t \in TimerIds |-> 0]
    /\ expired' = [t \in TimerIds |-> 0]
    /\ pc' = "returned"
    /\ UNCHANGED <<parseVars, j, tidlist, sev, ret, handlerVars, coalesced,
                   lateExpired, waitLeft, old, call, deleted, atWait>>

\* timerid and its are not initialised
DefaultInit ==
    /\ argv = << >>
    /\ origArgv = << >>
    /\ ts \in GarbageTs
    /\ parsed = << >>
    /\ pc = "d_signal"
    /\ j = 0
    /\ tidlist \in {[i \in {0} |-> g] : g \in GarbageVals}
    /\ sev = 0
    /\ ret = 0
    /\ sigpending \in 0..SigPendingLimit
    /\ NoKernel

DefaultNext ==
    \/ DefaultSignal
    \/ DefaultSetIts
    \/ DefaultCreate
    \/ DefaultCreateChk
    \/ DefaultExit
    \/ DefaultSettime
    \/ DefaultSettimeChk
    \/ DefaultSleep
    \/ DefaultTick
    \/ sigalrm_handler
    \/ SigalrmPrintf
    \/ SigalrmReturn
    \/ DefaultReturn

DefaultSpec == DefaultInit /\ [][DefaultNext]_vars

\* C25: a timer created with evp == NULL notifies with SIGALRM and carries
\* its own ID as sival_int; its expiration enters sigalrm_handler, the
\* handler installed for SIGALRM, before main returns, and never ends the
\* process by the default action of a signal without a handler.
C25_DefaultIsAlarmWithId ==
    /\ pc # "killed"
    /\ \A t \in LiveTimers(timers) :
          /\ timers[t].sigev_signo = SIGALRM
          /\ timers[t].sigev_value = t
    /\ hpc # "idle" =>
          /\ si.si_signo = SIGALRM
          /\ si.si_value = tidlist[0]
          /\ call.op = "sigalrm_handler" /\ call.h = tidlist[0]
    /\ pc = "returned" =>
          /\ call.op = "sigalrm_handler"
          /\ call.info.si_signo = SIGALRM
          /\ call.info.si_value = call.h

\* sigalrm_handler runs for the timer during the sleep, one second before
\* the sleep would end
C25_Witness ==
    /\ pc = "d_sleep" /\ hpc = "h_printf"
    /\ waitLeft = 1
    /\ si.si_signo = SIGALRM /\ si.si_value = tidlist[0]
    /\ timers[tidlist[0]].live /\ ~timers[tidlist[0]].armed

(***************************************************************************)
(* Timers and the life of the process: fork(), exec(), termination.  The   *)
(* model follows one process: after fork() the child, after exec() the     *)
(* new program.  The first program registers slot 0 of tidlist as payload, *)
(* the child or the new program slot 1.                                    *)
(***************************************************************************)
\* fork() after which the child has the timers of its parent
fork_inherit(tms, q, sp) == [timers |-> tms, sigq |-> q, sigpending |-> sp]

\* fork(), seen from the child: it has a copy of the parent's memory but
\* none of its timers and no pending signal; the parent keeps its timers
\* and their queued-signal structures
fork(tms, q, sp) ==
    [timers |-> [t \in TimerIds |-> NoTimer], sigq |-> << >>,
     sigpending |-> sp]

\* exec(): the timers of the old program are disarmed and deleted
exec(tms, q, sp) == DeleteAllTimers(tms, q, sp)

\* what the process had when fork(), exec() or exit() was called
EventRecord(op) ==
    [CallRecord(op, 0, -1, 0) EXCEPT
        !.live   = (LiveTimers(timers) # {}),
        !.armed  = (\E t \in LiveTimers(timers) : timers[t].armed),
        !.queued = (sigq # << >>)]

\* the process calls fork(); the model goes on with the child
Fork ==
    /\ pc = "calls" /\ hpc = "idle"
    /\ LET r == fork(timers, sigq, sigpending)
       IN  /\ timers' = r.timers
           /\ sigq' = r.sigq
           /\ sigpending' = r.sigpending
           /\ left' = [t \in TimerIds |->
                          IF r.timers[t].live THEN left[t] ELSE 0]
           /\ expired' = [t \in TimerIds |->
                             IF r.timers[t].live THEN expired[t] ELSE 0]
    /\ pc' = "child"
    /\ call' = EventRecord("fork")
    /\ old' = ZeroSpec
    /\ UNCHANGED <<parseVars, j, tidlist, sev, ret, handlerVars, coalesced,
                   lateExpired, waitLeft, deleted, atWait>>

\* the process calls exec(); the model goes on with the new program, whose
\* memory is new
Exec ==
    /\ pc = "calls" /\ hpc = "idle"
    /\ LET r == exec(timers, sigq, sigpending)
       IN  /\ timers' = r.timers
           /\ sigq' = r.sigq
           /\ sigpending' = r.sigpending
    /\ left' = [t \in TimerIds |-> 0]
    /\ expired' = [t \in TimerIds |-> 0]
    /\ tidlist' = [th \in Threads |-> -1]
    /\ pc' = "image"
    /\ call' = EventRecord("exec")
    /\ old' = ZeroSpec
    /\ UNCHANGED <<parseVars, j, sev, ret, handlerVars, coalesced,
                   lateExpired, waitLeft, deleted, atWait>>

\* the process terminates
Terminate ==
    /\ pc \in {"calls", "child", "image"} /\ hpc = "idle"
    /\ Exit
    /\ left' = [t \in TimerIds |-> 0]
    /\ call' = IF pc = "calls" THEN EventRecord("exit") ELSE call
    /\ old' = ZeroSpec
    /\ UNCHANGED <<parseVars, j, tidlist, sev, ret, handlerVars, coalesced,
                   lateExpired, waitLeft, deleted, atWait>>

\* the child or the new program creates a timer of its own:
\* timer_create(CLOCK_REALTIME, &sev, &tidlist[1])
OwnCreate ==
    /\ pc \in {"child", "image"}
    /\ LET r == timer_create(timers, sigpending, 1)
       IN  /\ timers' = r.timers
           /\ sigpending' = r.sigpending
           /\ tidlist' = IF r.ret = 0 THEN [tidlist EXCEPT ![1] = r.id]
                         ELSE tidlist
    /\ UNCHANGED <<apiVars, parseVars, pc, j, sev, ret, sigq, handlerVars,
                   historyVars>>

\* timer_settime(tidlist[1], 0, &new, NULL) by the child or the new program
OwnSettime(new) ==
    /\ pc \in {"child", "image"}
    /\ LET r == timer_settime(timers, tidlist[1], new)
       IN  timers' = r.timers
    /\ UNCHANGED <<apiVars, parseVars, mainVars, sigq, sigpending,
                   handlerVars, historyVars>>

ProcessNext ==
    \/ ApiCreate(0)
    \/ \E new \in NewValues : ApiSettime(0, new)
    \/ Fork
    \/ Exec
    \/ Terminate
    \/ OwnCreate
    \/ \E new \in NewValues : OwnSettime(new)
    \/ \E t \in TimerIds : Expire(t)
    \/ Deliver
    \/ HandlerGetOverrun
    \/ HandlerReturn

ProcessSpec == ApiInit /\ [][ProcessNext]_vars

\* C26: a process that has terminated has no timer and no notification;
\* the child of a fork() and the program started by exec() have only the
\* timers they created themselves, and every notification queued for them
\* or handled by them is of such a timer.
C26_TimersEndWithProcess ==
    /\ pc = "exited" =>
          /\ LiveTimers(timers) = {}
          /\ sigq = << >>
          /\ hpc = "idle"
    /\ pc \in {"child", "image"} =>
          /\ \A t \in LiveTimers(timers) : timers[t].sigev_value = 1
          /\ \A i \in 1..Len(sigq) :
                timers[sigq[i]].live /\ timers[sigq[i]].sigev_value = 1
          /\ \A t \in TimerIds : expired[t] > 0 => timers[t].live
          /\ InHandler => si.si_value = 1

\* the child of a process that had an armed timer and a pending
\* notification at the fork() handles the notification of its own timer
C26_Witness ==
    /\ pc = "child"
    /\ call.op = "fork" /\ call.armed /\ call.queued
    /\ InHandler /\ si.si_value = 1
    /\ tidlist[0] # -1 /\ tidlist[1] # -1

(***************************************************************************)
(* The timers of the multi-timer program and its command line              *)
(***************************************************************************)
\* what the texts of ArgTexts that timer_settime accepts denote
ArgSpec(text) ==
    CASE text = Tok1 \o <<NUL>> ->
             Itimerspec(Timespec(1, 0), Timespec(0, 0))
      [] text = Tok1 \o <<":">> \o Tok1 \o <<NUL>> ->
             Itimerspec(Timespec(1, 0), Timespec(1, 0))
      [] text = TokZero \o <<NUL>> ->
             Itimerspec(Timespec(0, 0), Timespec(0, 0))

\* the setting installed for the timer of slot i
Installed(i) ==
    Itimerspec(timers[tidlist[i]].it_value, timers[tidlist[i]].it_interval)

\* C27: when main reaches its pause loop there are as many timers as
\* arguments, and at every moment the timer of each slot that main has
\* armed has the setting parsed from the argument of that slot, which is
\* what the argument denotes, and as payload the address of that slot.
C27_TimersAsArguments ==
    /\ pc = "pause" =>
          /\ j = NArgs
          /\ Cardinality(LiveTimers(timers)) = NArgs
          /\ Cardinality({tidlist[i] : i \in DOMAIN tidlist}) = NArgs
    /\ pc \notin {"start", "exited"} =>
          \A i \in 0..(j - 1) :
              /\ timers[tidlist[i]].live
              /\ timers[tidlist[i]].sigev_value = i
              /\ Installed(i) = parsed[i + 1]
              /\ Installed(i) = ArgSpec(origArgv[i + 1])

\* main pauses with a one-shot and a periodic timer
C27_Witness ==
    /\ pc = "pause" /\ NArgs = 2
    /\ Installed(0) = Itimerspec(Timespec(1, 0), Timespec(0, 0))
    /\ Installed(1) = Itimerspec(Timespec(1, 0), Timespec(1, 0))
    /\ timers[tidlist[0]].sigev_value = 0
    /\ timers[tidlist[1]].sigev_value = 1

\* C28: when main arms a timer, slot j of tidlist holds the handle of the
\* timer created with the address of slot j as payload; so every timer that
\* is armed, has expired or has a notification queued has its handle in the
\* slot its payload points to, and the slot that handler reads is a written
\* one that holds the handle of the timer whose notification it handles.
C28_SlotHoldsHandle ==
    /\ pc = "settime" =>
          /\ timers[tidlist[j]].live
          /\ timers[tidlist[j]].sigev_value = j
    /\ \A t \in TimerIds :
          (timers[t].armed \/ Queued(sigq, t) \/ expired[t] > 0) =>
              /\ timers[t].sigev_value \in Written
              /\ tidlist[timers[t].sigev_value] = t
    /\ InHandler =>
          /\ tidptr \in Written
          /\ si.si_value = tidptr
          /\ timers[Handled].live
          /\ timers[Handled].sigev_value = tidptr

\* handler reads slot 0 while slot 1 is registered as payload and not yet
\* written
C28_Witness ==
    /\ pc = "create" /\ j = 1 /\ sev = 1
    /\ Written = {0}
    /\ hpc = "getoverrun" /\ tidptr = 0
    /\ Handled = tidlist[0]

(***************************************************************************)
(* sigvalCustomData.c: union sigval is the storage of an int and of a      *)
(* pointer, one over the other.  A value of the union is kept as the word  *)
(* w0 that sival_int occupies and the word w1 that only sival_ptr reaches  *)
(* where pointers are 64 bits wide (w1 is 0 where they are 32 bits wide);  *)
(* sent records which member the sender assigned.                          *)
(***************************************************************************)
PtrWidths == {32, 64}

\* (void *)&msg_data
msg_data == [w0 |-> 4096, w1 |-> 32767]

\* msg_data.id = 101
msg_data_id == 101

NULL == <<0, 0>>

\* the integers that senders pass with the signal
IntPayloads == {0, 42}

\* u.sival_int = v: the bytes of the int are written, the others stay
sival_int_set(u, v) == [u EXCEPT !.w0 = v, !.sent = "sival_int"]

\* u.sival_ptr = p
sival_ptr_set(u, p) ==
    [u EXCEPT !.w0 = p.w0,
              !.w1 = IF u.width = 64 THEN p.w1 ELSE 0,
              !.sent = "sival_ptr"]

\* u.sival_int
sival_int(u) == u.w0

\* u.sival_ptr
sival_ptr(u) == <<u.w0, u.w1>>

\* a union sigval that has not been assigned
GarbageSigval ==
    {[sent |-> "none", width |-> w, w0 |-> a, w1 |-> b] :
        w \in PtrWidths, a \in GarbageVals, b \in GarbageVals}

\* lines 38-46: sigaction(SIGUSR1, &sa, NULL)
SigvalSigaction ==
    /\ pc = "v_sigaction"
    /\ pc' = "v_msg"
    /\ UNCHANGED <<apiVars, parseVars, j, tidlist, sev, ret, kernelVars,
                   handlerVars, historyVars>>

\* lines 49-51: msg_data.id, msg_data.msg
SigvalMsgData ==
    /\ pc = "v_msg" /\ hpc = "idle"
    /\ pc' = "v_assign"
    /\ UNCHANGED <<apiVars, parseVars, j, tidlist, sev, ret, kernelVars,
                   handlerVars, historyVars>>

\* line 54: sig_data.sival_ptr = (void *)&msg_data
SigvalAssign ==
    /\ pc = "v_assign" /\ hpc = "idle"
    /\ sev' = sival_ptr_set(sev, msg_data)
    /\ pc' = "v_sigqueue"
    /\ UNCHANGED <<apiVars, parseVars, j, tidlist, ret, kernelVars,
                   handlerVars, historyVars>>

\* line 55: sigqueue(getpid(), SIGUSR1, sig_data) fails when the user has
\* no queued signal left; SIGUSR1 is a standard signal, of which one
\* instance at most is pending
SigvalSigqueue ==
    /\ pc = "v_sigqueue" /\ hpc = "idle"
    /\ IF sigpending >= SigPendingLimit
       THEN ret' = -1 /\ UNCHANGED sigq
       ELSE /\ ret' = 0
            /\ sigq' = IF sigq = << >> THEN <<sev>> ELSE sigq
    /\ pc' = "v_sigqueue_chk"
    /\ UNCHANGED <<apiVars, parseVars, j, tidlist, sev, timers, sigpending,
                   handlerVars, historyVars>>

\* lines 55-56: if (... == -1) perror("sigqueue")
SigvalSigqueueChk ==
    /\ pc = "v_sigqueue_chk" /\ hpc = "idle"
    /\ pc' = IF ret = -1 THEN "v_exit" ELSE "v_sleep"
    /\ UNCHANGED <<apiVars, parseVars, j, tidlist, sev, ret, kernelVars,
                   handlerVars, historyVars>>

\* line 57: exit(EXIT_FAILURE)
SigvalExit ==
    /\ pc = "v_exit" /\ hpc = "idle"
    /\ Exit
    /\ UNCHANGED <<apiVars, parseVars, j, tidlist, sev, ret, handlerVars,
                   coalesced, lateExpired>>

\* sleep(1); return 0 without the signal having been delivered
SigvalReturn_early ==
    /\ pc = "v_sleep" /\ hpc = "idle"
    /\ pc' = "v_returned"
    /\ UNCHANGED <<apiVars, parseVars, j, tidlist, sev, ret, kernelVars,
                   handlerVars, historyVars>>

\* lines 61-63: sleep(1); return 0.  The signal a process sends to itself
\* is delivered before sigqueue returns, so none is pending here
SigvalReturn ==
    /\ pc = "v_sleep" /\ hpc = "idle" /\ sigq = << >>
    /\ pc' = "v_returned"
    /\ UNCHANGED <<apiVars, parseVars, j, tidlist, sev, ret, kernelVars,
                   handlerVars, historyVars>>

\* a sender assigns val_int.sival_int = v to a union of its own and sends
\* SIGUSR1 with it to the process
SendInt(v) ==
    /\ pc \in {"v_msg", "v_assign", "v_sigqueue", "v_sigqueue_chk", "v_exit",
              "v_sleep"}
    /\ sigq = << >>
    /\ \E u \in GarbageSigval :
          /\ u.width = sev.width
          /\ u.width = 32 => u.w1 = 0
          /\ sigq' = <<sival_int_set(u, v)>>
    /\ UNCHANGED <<apiVars, parseVars, mainVars, timers, sigpending,
                   handlerVars, historyVars>>

\* SIGUSR1 is delivered; line 18: sig_data = info->si_value
sig_handler ==
    /\ pc \in {"v_msg", "v_assign", "v_sigqueue", "v_sigqueue_chk", "v_exit",
              "v_sleep"}
    /\ hpc = "idle"
    /\ sigq # << >>
    /\ si' = [si_value |-> Head(sigq), si_overrun |-> 0]
    /\ call' = [CallRecord("sig_handler", 0, -1, 0)
                   EXCEPT !.info = [si_value |-> Head(sigq), si_overrun |-> 0],
                          !.again = (call.op = "sig_handler")]
    /\ sigq' = Tail(sigq)
    /\ hpc' = "h_test"
    /\ UNCHANGED <<parseVars, mainVars, timers, sigpending, tidptr, overrun,
                   historyVars, left, waitLeft, old, deleted, atWait>>

\* line 21: if (sig_data.sival_ptr != NULL)
SigHandlerTest ==
    /\ hpc = "h_test"
    /\ hpc' = IF sival_ptr(si.si_value) # NULL THEN "h_ptr" ELSE "h_int"
    /\ UNCHANGED <<apiVars, parseVars, mainVars, kernelVars, si, tidptr,
                   overrun, historyVars>>

\* lines 22-24: msg_data->id and msg_data->msg are read and printed.  When
\* the pointer is not the address of a msg_struct the read is undefined:
\* the process is ended by SIGSEGV, or whatever is at the address is
\* printed
SigHandlerPtr ==
    /\ hpc = "h_ptr"
    /\ IF sival_ptr(si.si_value) = sival_ptr(sival_ptr_set(si.si_value,
                                                           msg_data))
       THEN /\ overrun' = msg_data_id
            /\ hpc' = "h_return"
            /\ UNCHANGED pc
       ELSE \/ /\ overrun' \in GarbageVals
               /\ hpc' = "h_return"
               /\ UNCHANGED pc
            \/ /\ pc' = "killed"
               /\ hpc' = "h_segv"
               /\ UNCHANGED overrun
    /\ UNCHANGED <<apiVars, parseVars, j, tidlist, sev, ret, kernelVars, si,
                   tidptr, historyVars>>

\* line 28: sig_data.sival_int is printed
SigHandlerInt ==
    /\ hpc = "h_int"
    /\ overrun' = sival_int(si.si_value)
    /\ hpc' = "h_return"
    /\ UNCHANGED <<apiVars, parseVars, mainVars, kernelVars, si, tidptr,
                   historyVars>>

\* line 30: sig_handler returns
SigHandlerReturn ==
    /\ hpc = "h_return"
    /\ hpc' = "idle"
    /\ si' = NoSiginfo
    /\ overrun' = 0
    /\ UNCHANGED <<apiVars, parseVars, mainVars, kernelVars, tidptr,
                   historyVars>>

\* sig_data is not initialised
SigvalInit ==
    /\ argv = << >>
    /\ origArgv = << >>
    /\ ts = ZeroSpec
    /\ parsed = << >>
    /\ pc = "v_sigaction"
    /\ j = 0
    /\ tidlist = << >>
    /\ sev \in {u \in GarbageSigval : u.width = 32 => u.w1 = 0}
    /\ ret = 0
    /\ sigpending \in 0..SigPendingLimit
    /\ NoKernel

SigvalNext ==
    \/ SigvalSigaction
    \/ SigvalMsgData
    \/ SigvalAssign
    \/ SigvalSigqueue
    \/ SigvalSigqueueChk
    \/ SigvalExit
    \/ SigvalReturn
    \/ \E v \in IntPayloads : SendInt(v)
    \/ sig_handler
    \/ SigHandlerTest
    \/ SigHandlerPtr
    \/ SigHandlerInt
    \/ SigHandlerReturn

SigvalSpec == SigvalInit /\ [][SigvalNext]_vars

\* C29: for a payload whose sender assigned sival_int, sig_handler takes
\* the branch that prints the integer and does not read through the
\* payload as a pointer.
C29_IntegerTakesIntegerBranch ==
    (hpc \in {"h_ptr", "h_int", "h_segv"}
        /\ si.si_value.sent = "sival_int") => hpc = "h_int"

(***************************************************************************)
(* The '/' of the interval part                                            *)
(***************************************************************************)
\* a decimal integer that an int holds
InRange(tok) == IsDecimal(tok) /\ Magnitude(tok) # -1

\* the text has a ':' with no '/' before it and a '/' after it
SlashInIntervalOnly ==
    HasColon /\ ~HasSlash(InitialPart) /\ HasSlash(IntervalPart)

\* C30: a '/' that follows the ':' belongs to the interval alone: the
\* initial expiration gets the seconds before the ':' and 0 nanoseconds,
\* the interval gets the seconds and the nanoseconds around the '/'
\* ("5:12/5" gives it_value (5, 0) and it_interval (12, 5)).
C30_SlashAfterColonIsInterval ==
    (Called /\ SlashInIntervalOnly) =>
        /\ parsed[1].it_value.tv_nsec = 0
        /\ InRange(InitialPart) =>
              Denotes(InitialPart, parsed[1].it_value.tv_sec)
        /\ InRange(SecTok(IntervalPart)) =>
              Denotes(SecTok(IntervalPart), parsed[1].it_interval.tv_sec)
        /\ InRange(NsecTok(IntervalPart)) =>
              Denotes(NsecTok(IntervalPart), parsed[1].it_interval.tv_nsec)
        /\ OrigText = Tok5 \o <<":">> \o Tok12 \o <<"/">> \o Tok5 =>
              parsed[1] = Itimerspec(Timespec(5, 0), Timespec(12, 5))

\* "5:12/5" was parsed into a structure that held other values
C30_Witness ==
    /\ Called
    /\ OrigText = Tok5 \o <<":">> \o Tok12 \o <<"/">> \o Tok5
    /\ parsed[1] = Itimerspec(Timespec(5, 0), Timespec(12, 5))
    /\ SlashInIntervalOnly

(***************************************************************************)
(* The handle that the programs arm                                        *)
(***************************************************************************)
\* C31: a program is about to call timer_settime only after a timer_create
\* that returned 0: no program arms the handle a failed timer_create left
\* unassigned.
C31_ArmsOnlyCreatedHandle ==
    pc \in {"settime", "s_settime", "d_settime"} => ret = 0

(***************************************************************************)
(* The multi-timer program after a failed call                             *)
(***************************************************************************)
\* C32: when timer_create or timer_settime fails for argument j + 1 the
\* next step of main is the exit with failure; at the exit no argument
\* after that one has been parsed, no timer of the process is left, no
\* notification is pending and handler does not run, and after the exit
\* nothing happens any more.
C32_FailureEndsProgram ==
    /\ [](pc = "exited" /\ NArgs >= 1 =>
             /\ ret = -1
             /\ Len(parsed) = j + 1
             /\ LiveTimers(timers) = {}
             /\ sigq = << >>
             /\ hpc = "idle")
    /\ [][(pc \in {"create_chk", "settime_chk"} /\ ret = -1 /\ pc' # pc) =>
             pc' = "exited"]_vars
    /\ [][pc = "exited" => UNCHANGED vars]_vars

\* the program has ended at the second argument, whose timer_settime was
\* rejected, after it had armed the timer of the first argument
C32_Witness ==
    /\ pc = "exited" /\ ret = -1
    /\ NArgs = 2 /\ j = 1
    /\ Len(parsed) = 2
    /\ parsed[1].it_value = Timespec(1, 0)
    /\ parsed[2].it_value.tv_nsec = NSEC_PER_SEC
    /\ LiveTimers(timers) = {}

(***************************************************************************)
(* The signal mask while handler runs.  TIMER_SIG is delivered when it is  *)
(* pending and not blocked; what is blocked during handler follows from    *)
(* the sa_flags and the sa_mask given to sigaction.                        *)
(***************************************************************************)
\* sa_flags with SA_NODEFER
sa_flags_nodefer == {"SA_SIGINFO", "SA_NODEFER"}

\* line 41: sa.sa_flags = SA_SIGINFO
sa_flags == {"SA_SIGINFO"}

\* line 43: sigemptyset(&sa.sa_mask)
sa_mask == {}

\* the signals blocked while the handler of sig installed with these flags
\* and this mask runs: the mask, and sig itself unless SA_NODEFER is set
BlockedInHandler(sig, flags, mask) ==
    mask \cup (IF "SA_NODEFER" \in flags THEN {} ELSE {sig})

\* the signal mask of the process
SignalMask ==
    IF hpc = "idle" THEN {}
    ELSE BlockedInHandler(TIMER_SIG, sa_flags, sa_mask)

\* TIMER_SIG is pending and not blocked: it is delivered and handler is
\* entered; "nested" when an invocation of handler is interrupted by it
DeliverUnblocked ==
    /\ pc \notin {"none", "exited"}
    /\ TIMER_SIG \notin SignalMask
    /\ sigq # << >>
    /\ LET t == Head(sigq)
       IN  /\ si' = [si_value |-> timers[t].sigev_value,
                     si_overrun |-> timers[t].it_overrun]
           /\ timers' = [timers EXCEPT ![t].it_overrun_last = timers[t].it_overrun,
                                       ![t].it_overrun = 0]
           /\ tidptr' = timers[t].sigev_value
           /\ coalesced' = expired[t]
           /\ expired' = [expired EXCEPT ![t] = 0]
    /\ sigq' = Tail(sigq)
    /\ hpc' = IF hpc = "idle" THEN "getoverrun" ELSE "nested"
    /\ UNCHANGED <<apiVars, parseVars, mainVars, sigpending, overrun, lateExpired>>

MaskNext ==
    \/ Start
    \/ Parse
    \/ Create
    \/ CreateChk
    \/ Settime
    \/ SettimeChk
    \/ \E t \in TimerIds : Expire(t)
    \/ DeliverUnblocked
    \/ HandlerGetOverrun
    \/ HandlerReturn

MaskSpec == Init /\ [][MaskNext]_vars

\* C33: handler is never entered while an invocation of it runs: an
\* expiration during handler leaves its notification pending, and no
\* notification leaves the queue until handler has returned.
C33_HandlerNotReentered ==
    /\ [](hpc # "nested")
    /\ [](InHandler =>
             \A t \in TimerIds : expired[t] > 0 => Queued(sigq, t))
    /\ [][InHandler => Len(sigq') >= Len(sigq)]_vars

\* handler runs for one timer while the notification of the other timer,
\* which expired in the meantime, is pending
C33_Witness ==
    /\ hpc = "getoverrun"
    /\ tidptr = 0
    /\ sigq = <<1>>
    /\ expired[1] = 1

(***************************************************************************)
(* The one-shot program that waits in pause(): a timer of 3 s whose        *)
(* notification carries an integer, the results of the calls checked, one  *)
(* pause() and then the return from main.  The clock advances in seconds,  *)
(* also between the statements of main.                                    *)
(***************************************************************************)
\* sevp.sigev_value.sival_int = 1234
sival_int_oneshot == 1234

\* ts: 3 s, no interval
PauseTs == Itimerspec(Timespec(3, 0), Timespec(0, 0))

\* sa; sigaction(SIGUSR1, &sa, NULL); sevp
PauseSigaction ==
    /\ pc = "p_sigaction"
    /\ sev' = sival_int_oneshot
    /\ pc' = "p_create"
    /\ UNCHANGED <<apiVars, parseVars, j, tidlist, ret, kernelVars,
                   handlerVars, historyVars>>

\* timer_create(clockid, &sevp, &timerid)
PauseCreate ==
    /\ pc = "p_create"
    /\ LET r == timer_create(timers, sigpending, sev)
       IN  /\ ret' = r.ret
           /\ timers' = r.timers
           /\ sigpending' = r.sigpending
           /\ tidlist' = IF r.ret = 0 THEN [tidlist EXCEPT ![0] = r.id]
                         ELSE tidlist
    /\ pc' = "p_create_chk"
    /\ UNCHANGED <<apiVars, parseVars, j, sev, sigq, handlerVars, historyVars>>

\* if (... == -1) perror("timer_create")
PauseCreateChk ==
    /\ pc = "p_create_chk"
    /\ pc' = IF ret = -1 THEN "p_exit" ELSE "p_ts"
    /\ UNCHANGED <<apiVars, parseVars, j, tidlist, sev, ret, kernelVars,
                   handlerVars, historyVars>>

\* ts.it_value, ts.it_interval
PauseSetTs ==
    /\ pc = "p_ts"
    /\ ts' = PauseTs
    /\ pc' = "p_settime"
    /\ UNCHANGED <<apiVars, argv, parsed, origArgv, j, tidlist, sev, ret,
                   kernelVars, handlerVars, historyVars>>

\* exit(EXIT_FAILURE)
PauseExit ==
    /\ pc = "p_exit" /\ hpc = "idle"
    /\ Exit
    /\ left' = [t \in TimerIds |-> 0]
    /\ UNCHANGED <<parseVars, j, tidlist, sev, ret, handlerVars, coalesced,
                   lateExpired, waitLeft, old, call, deleted, atWait>>

\* timer_settime(timerid, 0, &ts, NULL)
PauseSettime ==
    /\ pc = "p_settime" /\ hpc = "idle"
    /\ LET r == timer_settime(timers, tidlist[0], ts)
       IN  /\ ret' = r.ret
           /\ timers' = r.timers
           /\ left' = IF r.ret = 0
                      THEN [left EXCEPT ![tidlist[0]] = ts.it_value.tv_sec]
                      ELSE left
    /\ pc' = "p_settime_chk"
    /\ UNCHANGED <<parseVars, j, tidlist, sev, sigq, sigpending, handlerVars,
                   historyVars, waitLeft, old, call, deleted, atWait>>

\* if (... == -1) perror("timer_settime")
PauseSettimeChk ==
    /\ pc = "p_settime_chk" /\ hpc = "idle"
    /\ pc' = IF ret = -1 THEN "p_exit" ELSE "p_printf"
    /\ UNCHANGED <<apiVars, parseVars, j, tidlist, sev, ret, kernelVars,
                   handlerVars, historyVars>>

\* printf("Timer set. Waiting for signal...\n"); pause() begins
PausePause ==
    /\ pc = "p_printf" /\ hpc = "idle"
    /\ pc' = "p_pause"
    /\ UNCHANGED <<apiVars, parseVars, j, tidlist, sev, ret, kernelVars,
                   handlerVars, historyVars>>

\* one second passes for the armed timer
PauseTick ==
    /\ pc \in {"p_settime_chk", "p_printf", "p_pause"}
    /\ \E t \in LiveTimers(timers) : timers[t].armed
    /\ LET st == TickTimers([timers |-> timers, sigq |-> sigq,
                             left |-> left, expired |-> expired], TimerIds)
       IN  /\ timers' = st.timers
           /\ sigq' = st.sigq
           /\ left' = st.left
           /\ expired' = st.expired
    /\ UNCHANGED <<parseVars, mainVars, sigpending, handlerVars, coalesced,
                   lateExpired, waitLeft, old, call, deleted, atWait>>

\* SIGUSR1 is delivered and timer_handler is entered; its first printf
timer_handler_oneshot ==
    /\ pc \in {"p_settime_chk", "p_printf", "p_pause"}
    /\ hpc = "idle"
    /\ sigq # << >>
    /\ LET t    == Head(sigq)
           info == [si_value   |-> timers[t].sigev_value,
                    si_overrun |-> timers[t].it_overrun]
       IN  /\ si' = info
           /\ call' = [CallRecord("timer_handler", 0, t, 0)
                          EXCEPT !.info = info]
           /\ timers' = [timers EXCEPT
                            ![t].it_overrun_last = timers[t].it_overrun,
                            ![t].it_overrun = 0]
           /\ coalesced' = expired[t]
           /\ expired' = [expired EXCEPT ![t] = 0]
    /\ sigq' = Tail(sigq)
    /\ hpc' = "h_value"
    /\ UNCHANGED <<parseVars, mainVars, sigpending, tidptr, overrun,
                   lateExpired, left, waitLeft, old, deleted, atWait>>

\* the second printf of timer_handler: si->si_value.sival_int
PauseHandlerValue ==
    /\ hpc = "h_value"
    /\ overrun' = si.si_value
    /\ hpc' = "h_return"
    /\ UNCHANGED <<apiVars, parseVars, mainVars, kernelVars, si, tidptr,
                   historyVars>>

\* timer_handler returns; a pause() that it interrupted returns
PauseHandlerReturn ==
    /\ hpc = "h_return"
    /\ hpc' = "idle"
    /\ si' = NoSiginfo
    /\ overrun' = 0
    /\ coalesced' = 0
    /\ pc' = IF pc = "p_pause" THEN "p_exiting" ELSE pc
    /\ UNCHANGED <<apiVars, parseVars, j, tidlist, sev, ret, kernelVars,
                   tidptr, expired, lateExpired>>

\* printf("Program exiting.\n"); return 0: the process ends
PauseReturn ==
    /\ pc = "p_exiting" /\ hpc = "idle"
    /\ LET k == DeleteAllTimers(timers, sigq, sigpending)
       IN  /\ timers' = k.timers
           /\ sigq' = k.sigq
           /\ sigpending' = k.sigpending
    /\ left' = [t \in TimerIds |-> 0]
    /\ expired' = [t \in TimerIds |-> 0]
    /\ pc' = "returned"
    /\ UNCHANGED <<parseVars, j, tidlist, sev, ret, handlerVars, coalesced,
                   lateExpired, waitLeft, old, call, deleted, atWait>>

\* timerid, sevp and ts are not initialised
PauseInit ==
    /\ argv = << >>
    /\ origArgv = << >>
    /\ ts \in GarbageTs
    /\ parsed = << >>
    /\ pc = "p_sigaction"
    /\ j = 0
    /\ tidlist \in {[i \in {0} |-> g] : g \in GarbageVals}
    /\ sev \in GarbageVals
    /\ ret = 0
    /\ sigpending \in 0..SigPendingLimit
    /\ NoKernel

PauseNext ==
    \/ PauseSigaction
    \/ PauseCreate
    \/ PauseCreateChk
    \/ PauseSetTs
    \/ PauseExit
    \/ PauseSettime
    \/ PauseSettimeChk
    \/ PausePause
    \/ PauseTick
    \/ timer_handler_oneshot
    \/ PauseHandlerValue
    \/ PauseHandlerReturn
    \/ PauseReturn

PauseSpec == PauseInit /\ [][PauseNext]_vars

\* a timer of the process is armed, its notification is pending or its
\* handler runs
WakeupAhead ==
    \/ \E t \in LiveTimers(timers) : timers[t].armed
    \/ sigq # << >>
    \/ InHandler

\* C34: in the one-shot programs main returns only after the handler has
\* run for the expiration, and main never waits in pause() with nothing
\* left that would end the wait: the wait ends after the handler returns.
C34_OneShotProgramEnds ==
    /\ pc = "returned" => call.op \in {"timer_handler", "sigalrm_handler"}
    /\ pc = "p_pause" => WakeupAhead

(***************************************************************************)
(* The custom-payload program on its own: no other process sends SIGUSR1.  *)
(***************************************************************************)
SigvalMainNext ==
    \/ SigvalSigaction
    \/ SigvalMsgData
    \/ SigvalAssign
    \/ SigvalSigqueue
    \/ SigvalSigqueueChk
    \/ SigvalExit
    \/ SigvalReturn
    \/ sig_handler
    \/ SigHandlerTest
    \/ SigHandlerPtr
    \/ SigHandlerReturn

SigvalMainSpec == SigvalInit /\ [][SigvalMainNext]_vars

\* the payload is the pointer to msg_data
PointsToMsgData(u) ==
    /\ u.sent = "sival_ptr"
    /\ sival_ptr(u) = sival_ptr(sival_ptr_set(u, msg_data))

\* C35: when main returns, sig_handler has run once and no more, for the
\* signal main queued, with the pointer to msg_data as payload; the
\* handler takes the pointer branch, and whenever it reads through the
\* pointer main is between its sigqueue call and its return, so that
\* msg_data exists and is initialised; the read never ends the process.
C35_HandledOnceWhileAlive ==
    /\ pc = "v_returned" =>
          /\ call.op = "sig_handler" /\ ~call.again
          /\ PointsToMsgData(call.info.si_value)
    /\ hpc \notin {"h_int", "h_segv"}
    /\ pc # "killed"
    /\ hpc = "h_ptr" =>
          /\ pc \in {"v_sigqueue_chk", "v_sleep"}
          /\ PointsToMsgData(si.si_value)

\* sig_handler is about to read msg_data through the pointer, main being
\* back from sigqueue with result 0 and not yet in sleep
C35_Witness ==
    /\ hpc = "h_ptr"
    /\ pc = "v_sigqueue_chk" /\ ret = 0
    /\ PointsToMsgData(si.si_value)
    /\ call.op = "sig_handler" /\ ~call.again

====
